---- MODULE Spec2Model ----
(***************************************************************************)
(* Terminal completion service of the workbench                            *)
(* (terminalContrib/suggest/browser/terminalCompletionService.ts):         *)
(* the provider registry, the completion aggregator and the path           *)
(* resolution of resource requests; and the discovery of the MCP server    *)
(* collections that extensions contribute                                  *)
(* (mcp/common/discovery/extensionMcpDiscovery.ts).                        *)
(*                                                                         *)
(* Strings are TLA+ strings; a character is a string of length 1.          *)
(* Offsets into strings are 0-based as in the source; SubSeq is 1-based.   *)
(***************************************************************************)
EXTENDS Integers, Sequences, FiniteSets, TLC

VARIABLES
    isWindows,            \* platform flag read by URI and path (process constant)
    _providers,           \* Map<ext id, Map<provider id, provider>>, insertion ordered
    disposables,          \* the IDisposable handles returned by register, in call order
    providerConfig,       \* configuration value of TerminalSuggestSettingId.Providers
    cdPathConfig,         \* configuration value of TerminalSuggestSettingId.CdPath
    request,              \* arguments of the provideCompletions call being served
    selected,             \* the providers array handed to _collectCompletions
    completionPromises,   \* one promise per element of selected
    result,               \* the promise returned by provideCompletions / resolveResources
    invocations,          \* provider objects whose provideCompletions was called, in call order
    lookups,              \* locations handed to IFileService.resolve, in call order
    resourceRequest,      \* arguments of a direct resolveResources call
    cache,                \* the list objects that caching providers hand out, by provider object
    returned,             \* the requests served so far with what their callers received
    _extensionCollectionIdsToPersist,  \* ExtensionMcpDiscovery: Set<string>
    cachedServers,        \* ExtensionMcpDiscovery: { [collectionId]: IServerCacheEntry }
    extensionCollections, \* the DisposableMap of start(): the ids that hold a registration
    storageService,       \* the workspace storage: value under cacheKey, store calls, save events
    mcpRegistry,          \* IMcpRegistry.collections, by collection id
    extensionPoint,       \* the MCP extension point: its handler and the contributing extensions
    activated             \* the collection ids handed to _activateExtensionServers

\* the fields of ExtensionMcpDiscovery and the services it works with
discoveryVars == <<_extensionCollectionIdsToPersist, cachedServers, extensionCollections, storageService, mcpRegistry, extensionPoint, activated>>

vars == <<isWindows, _providers, disposables, providerConfig, cdPathConfig, request,
          selected, completionPromises, result, invocations, lookups, resourceRequest,
          cache, returned, discoveryVars>>

-----------------------------------------------------------------------------
\* an object without properties
EmptyObject == [key \in {} |-> <<>>]

\* no ExtensionMcpDiscovery has been constructed
NoDiscovery ==
    /\ _extensionCollectionIdsToPersist = {}
    /\ cachedServers = EmptyObject
    /\ extensionCollections = {}
    /\ storageService = [value |-> EmptyObject, stores |-> {}, savedState |-> FALSE]
    /\ mcpRegistry = EmptyObject
    /\ extensionPoint = [hasHandler |-> FALSE, extensions |-> {}]
    /\ activated = {}

-----------------------------------------------------------------------------
(* Bounds of the model *)

\* number of registerTerminalCompletionProvider calls in one behaviour
MaxRegistrations == 2

\* how far beyond the end of the prompt the cursor of a request may lie
MaxCursorBeyond == 1

-----------------------------------------------------------------------------
(* JavaScript string primitives used by the service *)

Min(a, b) == IF a < b THEN a ELSE b

Max(a, b) == IF a > b THEN a ELSE b

\* s[i] with a 0-based index, "" outside the string
CharAt(s, i) == IF i >= 0 /\ i < Len(s) THEN SubSeq(s, i + 1, i + 1) ELSE ""

\* String.prototype.substring(a, b): both ends clamped to [0, length], swapped if a > b
Substring(s, a, b) ==
    LET ca == Max(0, Min(a, Len(s)))
        cb == Max(0, Min(b, Len(s)))
    IN  SubSeq(s, Min(ca, cb) + 1, Max(ca, cb))

\* String.prototype.slice(a) for a >= 0
SliceFrom(s, a) == SubSeq(s, Min(a, Len(s)) + 1, Len(s))

\* String.prototype.slice(0, b) for b >= 0
SliceTo(s, b) == SubSeq(s, 1, Min(b, Len(s)))

StartsWith(s, prefix) ==
    /\ Len(prefix) <= Len(s)
    /\ SubSeq(s, 1, Len(prefix)) = prefix

EndsWith(s, suffix) ==
    /\ Len(suffix) <= Len(s)
    /\ SubSeq(s, Len(s) - Len(suffix) + 1, Len(s)) = suffix

\* String.prototype.lastIndexOf(ch) for a single character: 0-based, -1 when absent
LastIndexOf(s, ch) ==
    LET hits == {i \in 0..(Len(s) - 1) : CharAt(s, i) = ch}
    IN  IF hits = {} THEN -1 ELSE CHOOSE i \in hits : \A j \in hits : j <= i

\* String.prototype.indexOf(ch): 0-based, -1 when absent
IndexOf(s, ch) ==
    LET hits == {i \in 0..(Len(s) - 1) : CharAt(s, i) = ch}
    IN  IF hits = {} THEN -1 ELSE CHOOSE i \in hits : \A j \in hits : i <= j

\* String.prototype.replaceAll for single characters: every character of s that is in
\* `from` becomes `to`
RECURSIVE ReplaceChars(_, _, _)
ReplaceChars(s, from, to) ==
    IF Len(s) = 0 THEN ""
    ELSE (IF SubSeq(s, 1, 1) \in from THEN to ELSE SubSeq(s, 1, 1))
         \o ReplaceChars(SubSeq(s, 2, Len(s)), from, to)

\* String.prototype.split(sep) for a single character separator
RECURSIVE Split(_, _)
Split(s, sep) ==
    LET i == IndexOf(s, sep)
    IN  IF i = -1 THEN <<s>>
        ELSE <<SliceTo(s, i)>> \o Split(SliceFrom(s, i + 1), sep)

LowerLetters == <<"a", "b", "c", "d", "e", "f", "g", "h", "i", "j", "k", "l", "m",
                  "n", "o", "p", "q", "r", "s", "t", "u", "v", "w", "x", "y", "z">>

UpperLetters == <<"A", "B", "C", "D", "E", "F", "G", "H", "I", "J", "K", "L", "M",
                  "N", "O", "P", "Q", "R", "S", "T", "U", "V", "W", "X", "Y", "Z">>

IsLower(ch) == \E i \in 1..26 : LowerLetters[i] = ch

IsUpper(ch) == \E i \in 1..26 : UpperLetters[i] = ch

\* [a-zA-Z]
IsLetter(ch) == IsLower(ch) \/ IsUpper(ch)

\* String.prototype.toUpperCase on one character
ToUpperCase(ch) ==
    IF IsLower(ch) THEN UpperLetters[CHOOSE i \in 1..26 : LowerLetters[i] = ch] ELSE ch

\* String.prototype.toLowerCase on one character
ToLowerCase(ch) ==
    IF IsUpper(ch) THEN LowerLetters[CHOOSE i \in 1..26 : UpperLetters[i] = ch] ELSE ch

-----------------------------------------------------------------------------
(* base/common/path.js and base/common/uri.js, as far as the service uses them. *)
(* A URI is [path |-> string]: scheme file, no authority.                       *)

RECURSIVE JoinWith(_, _)
JoinWith(segs, sep) ==
    IF Len(segs) = 0 THEN ""
    ELSE IF Len(segs) = 1 THEN segs[1]
    ELSE segs[1] \o sep \o JoinWith(Tail(segs), sep)

\* normalizeString: drops empty and "." segments, resolves ".." against the segments
\* kept so far; above the root ".." is dropped (absolute) or kept (relative)
RECURSIVE NormalizeSegments(_, _, _)
NormalizeSegments(segs, acc, allowAboveRoot) ==
    IF Len(segs) = 0 THEN acc
    ELSE LET h == Head(segs)
             next == IF h = "" \/ h = "." THEN acc
                     ELSE IF h = ".."
                          THEN IF Len(acc) > 0 /\ acc[Len(acc)] # ".."
                               THEN SubSeq(acc, 1, Len(acc) - 1)
                               ELSE IF allowAboveRoot THEN Append(acc, "..") ELSE acc
                     ELSE Append(acc, h)
         IN  NormalizeSegments(Tail(segs), next, allowAboveRoot)

\* posix.normalize
PosixNormalize(path) ==
    IF Len(path) = 0 THEN "."
    ELSE LET isAbsolute == StartsWith(path, "/")
             trailingSeparator == EndsWith(path, "/")
             body == JoinWith(NormalizeSegments(Split(path, "/"), <<>>, ~isAbsolute), "/")
         IN  IF Len(body) = 0
             THEN IF isAbsolute THEN "/" ELSE IF trailingSeparator THEN "./" ELSE "."
             ELSE (IF isAbsolute THEN "/" ELSE "") \o body
                  \o (IF trailingSeparator THEN "/" ELSE "")

\* posix.join(a, b)
PosixJoin(a, b) ==
    IF Len(a) = 0 /\ Len(b) = 0 THEN "."
    ELSE IF Len(b) = 0 THEN PosixNormalize(a)
    ELSE IF Len(a) = 0 THEN PosixNormalize(b)
    ELSE PosixNormalize(a \o "/" \o b)

\* /^[a-zA-Z]:/ at the start of s
HasDriveLetter(s) == IsLetter(CharAt(s, 0)) /\ CharAt(s, 1) = ":"

\* win32.normalize of a path with or without a drive letter (no UNC paths)
Win32Normalize(path) ==
    IF Len(path) = 0 THEN "."
    ELSE LET device == IF HasDriveLetter(path) THEN SliceTo(path, 2) ELSE ""
             rest == ReplaceChars(SliceFrom(path, Len(device)), {"/"}, "\\")
             isAbsolute == StartsWith(rest, "\\")
             trailingSeparator == EndsWith(rest, "\\")
             body == JoinWith(NormalizeSegments(Split(rest, "\\"), <<>>, ~isAbsolute), "\\")
         IN  IF Len(body) = 0
             THEN IF isAbsolute THEN device \o "\\"
                  ELSE IF Len(device) > 0 THEN device ELSE "."
             ELSE device \o (IF isAbsolute THEN "\\" ELSE "") \o body
                  \o (IF trailingSeparator THEN "\\" ELSE "")

\* win32.join(a, b)
Win32Join(a, b) ==
    IF Len(a) = 0 /\ Len(b) = 0 THEN "."
    ELSE IF Len(b) = 0 THEN Win32Normalize(a)
    ELSE IF Len(a) = 0 THEN Win32Normalize(b)
    ELSE Win32Normalize(a \o "\\" \o b)

\* URI.file(path): forward slashes on Windows, and the path of a file URI is rooted
UriFile(path, win) ==
    LET p == IF win THEN ReplaceChars(path, {"\\"}, "/") ELSE path
    IN  [path |-> IF StartsWith(p, "/") THEN p ELSE "/" \o p]

\* uriToFsPath(uri, keepDriveLetterCasing)
UriToFsPath(uri, keepDriveLetterCasing, win) ==
    LET p == uri.path
        value == IF CharAt(p, 0) = "/" /\ IsLetter(CharAt(p, 1)) /\ CharAt(p, 2) = ":"
                 THEN IF keepDriveLetterCasing THEN SliceFrom(p, 1)
                      ELSE ToLowerCase(CharAt(p, 1)) \o SliceFrom(p, 2)
                 ELSE p
    IN  IF win THEN ReplaceChars(value, {"/"}, "\\") ELSE value

\* URI.prototype.fsPath
FsPath(uri, win) == UriToFsPath(uri, FALSE, win)

\* URI.joinPath(uri, fragment)
JoinPath(uri, fragment, win) ==
    IF win THEN UriFile(Win32Join(UriToFsPath(uri, TRUE, win), fragment), win)
    ELSE [path |-> PosixJoin(uri.path, fragment)]

\* path.basename(p): the text after the last separator, trailing separators ignored
RECURSIVE StripTrailing(_, _)
StripTrailing(p, seps) ==
    IF Len(p) > 1 /\ SubSeq(p, Len(p), Len(p)) \in seps
    THEN StripTrailing(SubSeq(p, 1, Len(p) - 1), seps)
    ELSE p

Basename(p, win) ==
    LET q == IF win THEN ReplaceChars(p, {"\\"}, "/") ELSE p
        t == StripTrailing(q, {"/"})
    IN  SliceFrom(t, LastIndexOf(t, "/") + 1)


-----------------------------------------------------------------------------
(* IFileService.resolve over a fixed directory tree. *)

\* the value of an optional string that is not set
Undefined == "undefined"

Dir(name) == [name |-> name, isDirectory |-> TRUE, isFile |-> FALSE]

File(name) == [name |-> name, isDirectory |-> FALSE, isFile |-> TRUE]

\* neither a file nor a directory (a socket, a device)
Other(name) == [name |-> name, isDirectory |-> FALSE, isFile |-> FALSE]

\* the directories of the disk, each with its direct children in listing order; the
\* key is the location's path without trailing separator, drive letter in lower case
DiskDirs ==
    ("/" :> <<Dir("home"), Dir("opt")>>) @@
    ("/home" :> <<Dir("u")>>) @@
    ("/home/u" :> <<Dir("src"), File("f.txt"), Other("sock")>>) @@
    ("/home/u/src" :> <<Dir("lib"), Dir("app"), File("m.ts")>>) @@
    ("/home/u/src/lib" :> <<>>) @@
    ("/home/u/src/app" :> <<>>) @@
    ("/opt" :> <<Dir("tools"), File("x.sh")>>) @@
    ("/opt/tools" :> <<>>) @@
    ("/c:" :> <<Dir("home"), Dir("src"), Dir("opt")>>) @@
    ("/c:/home" :> <<Dir("u")>>) @@
    ("/c:/home/u" :> <<Dir("src"), File("f.txt")>>) @@
    ("/c:/home/u/src" :> <<Dir("lib")>>) @@
    ("/c:/home/u/src/lib" :> <<>>) @@
    ("/c:/src" :> <<Dir("win"), File("a.txt")>>) @@
    ("/c:/src/win" :> <<>>) @@
    ("/c:/opt" :> <<Dir("tools")>>) @@
    ("/c:/opt/tools" :> <<>>)

\* the key of a location on the disk
DiskKey(uri) ==
    LET p == uri.path
        q == IF CharAt(p, 0) = "/" /\ IsLetter(CharAt(p, 1)) /\ CharAt(p, 2) = ":"
             THEN "/" \o ToLowerCase(CharAt(p, 1)) \o SliceFrom(p, 2)
             ELSE p
    IN  StripTrailing(q, {"/"})

\* the location of a child of the directory with key `key`
ChildResource(key, name) == [path |-> (IF key = "/" THEN "" ELSE key) \o "/" \o name]

\* the regular files of the disk
DiskFiles ==
    {ChildResource(k, DiskDirs[k][i].name).path :
        <<k, i>> \in {<<k, i>> \in (DOMAIN DiskDirs) \X (1..3) :
                        i <= Len(DiskDirs[k]) /\ DiskDirs[k][i].isFile}}

\* IFileService.resolve(uri, { resolveSingleChildDescendants: true }): rejects when the
\* lookup fails (an I/O error on a location of `failing`, or nothing at the location);
\* a directory resolves to a stat with children, a file to a stat without
FileServiceResolve(uri, failing) ==
    LET key == DiskKey(uri)
    IN  IF key \in failing \/ (key \notin DOMAIN DiskDirs /\ key \notin DiskFiles)
        THEN [rejected |-> TRUE, hasChildren |-> FALSE, children |-> <<>>]
        ELSE IF key \in DOMAIN DiskDirs
        THEN [rejected |-> FALSE, hasChildren |-> TRUE,
              children |-> [i \in 1..Len(DiskDirs[key]) |->
                              [name |-> DiskDirs[key][i].name,
                               resource |-> ChildResource(key, DiskDirs[key][i].name),
                               isDirectory |-> DiskDirs[key][i].isDirectory,
                               isFile |-> DiskDirs[key][i].isFile]]]
        ELSE [rejected |-> FALSE, hasChildren |-> FALSE, children |-> <<>>]


-----------------------------------------------------------------------------
(* TerminalCompletionService.resolveResources and its helpers. *)

\* mutant: the drive letter is shown as fsPath gives it
GetFriendlyPath_DriveAsIs(uri, pathSeparator, kind, win) ==
    IF kind = "Folder" /\ ~EndsWith(FsPath(uri, win), pathSeparator)
    THEN FsPath(uri, win) \o pathSeparator ELSE FsPath(uri, win)

\* getFriendlyPath(uri, pathSeparator, kind)
GetFriendlyPath(uri, pathSeparator, kind, win) ==
    LET path0 == FsPath(uri, win)
        \* Ensure folders end with the path separator
        path1 == IF kind = "Folder" /\ ~EndsWith(path0, pathSeparator)
                 THEN path0 \o pathSeparator ELSE path0
    IN  \* Ensure drive is capitalized on Windows
        IF pathSeparator = "\\" /\ HasDriveLetter(path1) /\ CharAt(path1, 2) = "\\"
        THEN ToUpperCase(CharAt(path1, 0)) \o ":" \o SliceFrom(path1, 2)
        ELSE path1

\* addPathRelativePrefix(text, resourceRequestConfig, lastWordFolderHasDotPrefix)
AddPathRelativePrefix(text, pathSeparator, lastWordFolderHasDotPrefix) ==
    IF ~lastWordFolderHasDotPrefix THEN "." \o pathSeparator \o text ELSE text

UseWindowsStylePath(cfg) == cfg.pathSeparator = "\\"

\* the prompt after the separator normalization of lines 197-200
NormalizedPrompt(cfg, promptValue) ==
    IF UseWindowsStylePath(cfg)
    THEN ReplaceChars(promptValue, {"\\", "/"}, cfg.pathSeparator)
    ELSE promptValue

\* mutant: the prompt is not cut at the cursor
CursorPrefix_WholePrompt(cfg, promptValue, cursorPosition) ==
    NormalizedPrompt(cfg, promptValue)

CursorPrefix(cfg, promptValue, cursorPosition) ==
    Substring(NormalizedPrompt(cfg, promptValue), 0, cursorPosition)

\* The last word (or argument); the empty string when the cursor follows a space
LastWord(cursorPrefix) ==
    IF EndsWith(cursorPrefix, " ") THEN ""
    ELSE LET words == Split(cursorPrefix, " ") IN words[Len(words)]

LastSlashIndex(cfg, lastWord) ==
    IF UseWindowsStylePath(cfg)
    THEN Max(LastIndexOf(lastWord, "\\"), LastIndexOf(lastWord, "/"))
    ELSE LastIndexOf(lastWord, cfg.pathSeparator)

\* The complete folder of the last word: `./src/` for `./src/file`
LastWordFolder(cfg, lastWord) ==
    LET lastSlashIndex == LastSlashIndex(cfg, lastWord)
        folder == IF lastSlashIndex = -1 THEN "" ELSE SliceTo(lastWord, lastSlashIndex + 1)
    IN  IF UseWindowsStylePath(cfg) THEN ReplaceChars(folder, {"/"}, "\\") ELSE folder

\* /^\.\.?[\\\/]/
LastWordFolderHasDotPrefix(lastWordFolder) ==
    /\ CharAt(lastWordFolder, 0) = "."
    /\ \/ CharAt(lastWordFolder, 1) \in {"\\", "/"}
       \/ CharAt(lastWordFolder, 1) = "." /\ CharAt(lastWordFolder, 2) \in {"\\", "/"}

\* /^~[\\\/]/
LastWordFolderHasTildePrefix(lastWordFolder) ==
    CharAt(lastWordFolder, 0) = "~" /\ CharAt(lastWordFolder, 1) \in {"\\", "/"}

IsAbsolutePath(cfg, lastWord) ==
    IF UseWindowsStylePath(cfg)
    THEN HasDriveLetter(lastWord) /\ CharAt(lastWord, 2) \in {"\\", "/"}
    ELSE StartsWith(lastWord, cfg.pathSeparator)

\* 'tilde' | 'absolute' | 'relative'
PathType(cfg, lastWord) ==
    IF LastWordFolderHasTildePrefix(LastWordFolder(cfg, lastWord)) THEN "tilde"
    ELSE IF IsAbsolutePath(cfg, lastWord) THEN "absolute"
    ELSE "relative"

\* capabilities.get(TerminalCapability.ShellEnvDetection)?.env?.get(key); "" when the
\* capability or the variable is missing (the callers only test the value for truth)
EnvGet(capabilities, key) ==
    IF capabilities.shellEnvDetection /\ key \in DOMAIN capabilities.env
    THEN capabilities.env[key] ELSE ""

\* mutant: a tilde word shows the home directory itself
LastWordFolderResource_HomeOnly(cfg, lastWord, capabilities, win) ==
    LET type == PathType(cfg, lastWord)
        home == EnvGet(capabilities, IF UseWindowsStylePath(cfg) THEN "USERPROFILE" ELSE "HOME")
    IN  IF type = "tilde"
        THEN [isString |-> FALSE, text |-> "", uri |-> UriFile(home, win)]
        ELSE IF type = "absolute"
        THEN [isString |-> FALSE, text |-> "",
              uri |-> UriFile(LastWordFolder(cfg, lastWord), win)]
        ELSE [isString |-> FALSE, text |-> "", uri |-> cfg.cwd]

\* The folder being shown (lines 235-267): a location, or a text when it is not known
LastWordFolderResource(cfg, lastWord, capabilities, win) ==
    LET lastWordFolder == LastWordFolder(cfg, lastWord)
        type == PathType(cfg, lastWord)
        home == EnvGet(capabilities, IF UseWindowsStylePath(cfg) THEN "USERPROFILE" ELSE "HOME")
    IN  IF type = "tilde"
        THEN IF home # ""
             THEN [isString |-> FALSE, text |-> "",
                   uri |-> JoinPath(UriFile(home, win), SliceFrom(lastWordFolder, 1), win)]
             ELSE [isString |-> TRUE,
                   text |-> IF UseWindowsStylePath(cfg) THEN "Home directory" ELSE "$HOME",
                   uri |-> [path |-> ""]]
        ELSE IF type = "absolute"
        THEN [isString |-> FALSE, text |-> "", uri |-> UriFile(lastWordFolder, win)]
        ELSE [isString |-> FALSE, text |-> "", uri |-> cfg.cwd]

\* mutant: the replacement starts at the start of the prompt
ResourceCompletion_FromStart(label, provider, kind, detail, cursorPosition, lastWord) ==
    [label |-> label,
     provider |-> provider,
     kind |-> kind,
     detail |-> detail,
     replacementIndex |-> 0,
     replacementLength |-> Len(lastWord),
     isFileOverride |-> Undefined]

\* the object literal pushed to resourceCompletions
ResourceCompletion(label, provider, kind, detail, cursorPosition, lastWord) ==
    [label |-> label,
     provider |-> provider,
     kind |-> kind,
     detail |-> detail,
     replacementIndex |-> cursorPosition - Len(lastWord),
     replacementLength |-> Len(lastWord),
     isFileOverride |-> Undefined]

\* lines 307-335: the folder itself
SelfCompletions(cfg, lastWord, resource, provider, cursorPosition, win) ==
    LET lastWordFolder == LastWordFolder(cfg, lastWord)
        type == PathType(cfg, lastWord)
        label == IF type = "relative"
                 THEN IF Len(lastWordFolder) > 0
                      THEN AddPathRelativePrefix(lastWordFolder, cfg.pathSeparator,
                                                 LastWordFolderHasDotPrefix(lastWordFolder))
                      ELSE "."
                 ELSE lastWordFolder
    IN  IF cfg.foldersRequested
        THEN <<ResourceCompletion(label, provider, "Folder",
                                  GetFriendlyPath(resource, cfg.pathSeparator, "Folder", win),
                                  cursorPosition, lastWord)>>
        ELSE <<>>

\* mutant: the kind of a child follows the child alone, not what was requested
ChildKind_Unrequested(cfg, child) ==
    IF child.isDirectory THEN "Folder"
    ELSE IF child.isFile THEN "File"
    ELSE Undefined

\* lines 344-349: the kind of a child, Undefined when the child is skipped
ChildKind(cfg, child) ==
    IF cfg.foldersRequested /\ child.isDirectory THEN "Folder"
    ELSE IF cfg.filesRequested /\ child.isFile THEN "File"
    ELSE Undefined

\* lines 354-364: the label of a child
ChildLabel(cfg, lastWord, child) ==
    LET lastWordFolder == LastWordFolder(cfg, lastWord)
        l0 == IF Len(lastWordFolder) > 0 /\ ~EndsWith(lastWordFolder, cfg.pathSeparator)
              THEN lastWordFolder \o cfg.pathSeparator ELSE lastWordFolder
        l1 == l0 \o child.name
        l2 == IF PathType(cfg, lastWord) = "relative"
              THEN AddPathRelativePrefix(l1, cfg.pathSeparator,
                                         LastWordFolderHasDotPrefix(lastWordFolder))
              ELSE l1
    IN  IF child.isDirectory /\ ~EndsWith(l2, cfg.pathSeparator)
        THEN l2 \o cfg.pathSeparator ELSE l2

\* lines 343-374: all direct children files or folders
RECURSIVE ChildCompletions(_, _, _, _, _, _)
ChildCompletions(cfg, lastWord, children, provider, cursorPosition, win) ==
    IF Len(children) = 0 THEN <<>>
    ELSE LET child == Head(children)
             kind == ChildKind(cfg, child)
             rest == ChildCompletions(cfg, lastWord, Tail(children), provider,
                                      cursorPosition, win)
         IN  IF kind = Undefined THEN rest
             ELSE <<ResourceCompletion(ChildLabel(cfg, lastWord, child), provider, kind,
                        GetFriendlyPath(child.resource, cfg.pathSeparator, kind, win),
                        cursorPosition, lastWord)>> \o rest


\* lines 389-405: the directories of one CDPATH entry
RECURSIVE CdPathEntryCompletions(_, _, _, _, _, _, _)
CdPathEntryCompletions(cfg, lastWord, children, provider, cursorPosition, config, win) ==
    IF Len(children) = 0 THEN <<>>
    ELSE LET child == Head(children)
             useRelative == config = "relative"
             friendly == GetFriendlyPath(child.resource, cfg.pathSeparator, "Folder", win)
             label == IF useRelative THEN Basename(FsPath(child.resource, win), win)
                      ELSE friendly
             detail == IF useRelative THEN "CDPATH " \o friendly ELSE "CDPATH"
             rest == CdPathEntryCompletions(cfg, lastWord, Tail(children), provider,
                                            cursorPosition, config, win)
         IN  IF ~child.isDirectory THEN rest
             ELSE <<ResourceCompletion(label, provider, "Folder", detail,
                                       cursorPosition, lastWord)>> \o rest

\* mutant: the first failing lookup ends the CDPATH search
RECURSIVE CdPathCompletions_Abort(_, _, _, _, _, _, _, _)
CdPathCompletions_Abort(cfg, lastWord, cdPathEntries, provider, cursorPosition, config, failing, win) ==
    IF Len(cdPathEntries) = 0 THEN <<>>
    ELSE IF FileServiceResolve(UriFile(Head(cdPathEntries), win), failing).rejected THEN <<>>
    ELSE CdPathEntryCompletions(cfg, lastWord,
                                FileServiceResolve(UriFile(Head(cdPathEntries), win),
                                                   failing).children,
                                provider, cursorPosition, config, win)
         \o CdPathCompletions_Abort(cfg, lastWord, Tail(cdPathEntries), provider,
                                    cursorPosition, config, failing, win)

\* lines 385-408: one lookup per CDPATH entry, a failing lookup is ignored
RECURSIVE CdPathCompletions(_, _, _, _, _, _, _, _)
CdPathCompletions(cfg, lastWord, cdPathEntries, provider, cursorPosition, config, failing, win) ==
    IF Len(cdPathEntries) = 0 THEN <<>>
    ELSE LET fileStat == FileServiceResolve(UriFile(Head(cdPathEntries), win), failing)
             here == IF ~fileStat.rejected /\ fileStat.hasChildren
                     THEN CdPathEntryCompletions(cfg, lastWord, fileStat.children, provider,
                                                 cursorPosition, config, win)
                     ELSE <<>>
         IN  here \o CdPathCompletions(cfg, lastWord, Tail(cdPathEntries), provider,
                                       cursorPosition, config, failing, win)

\* the entries of $CDPATH that are looked up (lines 378-384), <<>> when the search is off
CdPathEntries(cfg, promptValue, lastWord, capabilities, config) ==
    LET cdPath == EnvGet(capabilities, "CDPATH")
    IN  IF /\ PathType(cfg, lastWord) = "relative"
           /\ cfg.foldersRequested
           /\ StartsWith(NormalizedPrompt(cfg, promptValue), "cd ")
           /\ config \in {"absolute", "relative"}
           /\ cdPath # ""
        THEN Split(cdPath, IF UseWindowsStylePath(cfg) THEN ";" ELSE ":")
        ELSE <<>>

\* mutant: the parent directory is offered whatever the classification
ParentCompletions_AnyType(cfg, lastWord, provider, cursorPosition, win) ==
    LET lastWordFolder == LastWordFolder(cfg, lastWord)
        dots == ".." \o cfg.pathSeparator
        label == IF Len(lastWordFolder) > 0
                 THEN AddPathRelativePrefix(lastWordFolder \o dots, cfg.pathSeparator,
                                            LastWordFolderHasDotPrefix(lastWordFolder))
                 ELSE dots
        parentDir == JoinPath(cfg.cwd, dots, win)
    IN  IF cfg.foldersRequested
        THEN <<ResourceCompletion(label, provider, "Folder",
                                  GetFriendlyPath(parentDir, cfg.pathSeparator, "Folder", win),
                                  cursorPosition, lastWord)>>
        ELSE <<>>

\* lines 419-433: the parent directory
ParentCompletions(cfg, lastWord, provider, cursorPosition, win) ==
    LET lastWordFolder == LastWordFolder(cfg, lastWord)
        dots == ".." \o cfg.pathSeparator
        label == IF Len(lastWordFolder) > 0
                 THEN AddPathRelativePrefix(lastWordFolder \o dots, cfg.pathSeparator,
                                            LastWordFolderHasDotPrefix(lastWordFolder))
                 ELSE dots
        parentDir == JoinPath(cfg.cwd, dots, win)
    IN  IF PathType(cfg, lastWord) = "relative" /\ cfg.foldersRequested
        THEN <<ResourceCompletion(label, provider, "Folder",
                                  GetFriendlyPath(parentDir, cfg.pathSeparator, "Folder", win),
                                  cursorPosition, lastWord)>>
        ELSE <<>>

\* the outcome of an async function: rejected, or fulfilled with undefined
\* (hasValue = FALSE) or with a list of items; `lookups` are the locations it looked up
Rejected(lookedUp) == [rejected |-> TRUE, hasValue |-> FALSE, items |-> <<>>, lookups |-> lookedUp]

FulfilledUndefined(lookedUp) ==
    [rejected |-> FALSE, hasValue |-> FALSE, items |-> <<>>, lookups |-> lookedUp]

Fulfilled(items, lookedUp) ==
    [rejected |-> FALSE, hasValue |-> TRUE, items |-> items, lookups |-> lookedUp]

\* resolveResources(resourceRequestConfig, promptValue, cursorPosition, provider,
\* capabilities); `config` is the CdPath setting, `failing` the locations whose lookup
\* fails with an I/O error, `win` the platform
ResolveResources(cfg, promptValue, cursorPosition, provider, capabilities, config, failing, win) ==
    LET lastWord == LastWord(CursorPrefix(cfg, promptValue, cursorPosition))
        lastWordFolder == LastWordFolder(cfg, lastWord)
        resource == LastWordFolderResource(cfg, lastWord, capabilities, win)
        stat == FileServiceResolve(resource.uri, failing)
        cdPathEntries == CdPathEntries(cfg, promptValue, lastWord, capabilities, config)
        cdPathLookups == [i \in 1..Len(cdPathEntries) |-> UriFile(cdPathEntries[i], win).path]
    IN  IF ~cfg.hasCwd \/ (~cfg.foldersRequested /\ ~cfg.filesRequested)
        THEN FulfilledUndefined(<<>>)
        ELSE IF resource.isString
        THEN \* Early exit with basic completion if we don't know the resource
             Fulfilled(<<ResourceCompletion(lastWordFolder, provider, "Folder", resource.text,
                                            cursorPosition, lastWord)>>, <<>>)
        ELSE IF stat.rejected
        THEN Rejected(<<resource.uri.path>>)
        ELSE IF ~stat.hasChildren
        THEN FulfilledUndefined(<<resource.uri.path>>)
        ELSE Fulfilled(
                 SelfCompletions(cfg, lastWord, resource.uri, provider, cursorPosition, win)
                 \o ChildCompletions(cfg, lastWord, stat.children, provider, cursorPosition, win)
                 \o CdPathCompletions(cfg, lastWord, cdPathEntries, provider, cursorPosition,
                                      config, failing, win)
                 \o ParentCompletions(cfg, lastWord, provider, cursorPosition, win),
                 <<resource.uri.path>> \o cdPathLookups)


-----------------------------------------------------------------------------
(* Values shared by the specifications *)

\* a promise: state is "none" (no call yet), "pending", "fulfilled" or "rejected"; a
\* fulfilled promise holds undefined (hasValue = FALSE) or a list of items
NoPromise == [state |-> "none", hasValue |-> FALSE, items |-> <<>>]

PendingPromise == [state |-> "pending", hasValue |-> FALSE, items |-> <<>>]

RejectedPromise == [state |-> "rejected", hasValue |-> FALSE, items |-> <<>>]

UndefinedPromise == [state |-> "fulfilled", hasValue |-> FALSE, items |-> <<>>]

ItemsPromise(items) == [state |-> "fulfilled", hasValue |-> TRUE, items |-> items]

\* the promise an outcome of ResolveResources settles
PromiseOf(outcome) ==
    IF outcome.rejected THEN RejectedPromise
    ELSE IF outcome.hasValue THEN ItemsPromise(outcome.items)
    ELSE UndefinedPromise

NoRequest == [called |-> FALSE]

NoResourceRequest == [called |-> FALSE]

\* the cursor offsets tried on a prompt: before the start, inside, and beyond the end
Cursors(promptValue) == (-1)..(Len(promptValue) + MaxCursorBeyond)

\* ITerminalCapabilityStore: without the ShellEnvDetection capability, or with an
\* environment that may lack the home directory and CDPATH
CapabilityStores(win) ==
    LET home == IF win THEN [USERPROFILE |-> "C:\\home\\u"] ELSE [HOME |-> "/home/u"]
        cdPath == IF win THEN [CDPATH |-> "c:\\nope;c:\\opt"] ELSE [CDPATH |-> "/nope:/opt"]
    IN  {[shellEnvDetection |-> FALSE, env |-> home @@ cdPath],
         [shellEnvDetection |-> TRUE, env |-> cdPath],
         [shellEnvDetection |-> TRUE, env |-> home],
         [shellEnvDetection |-> TRUE, env |-> home @@ cdPath]}

\* TerminalResourceRequestConfig values a provider may return
ResourceRequestConfigs(win) ==
    {[hasCwd |-> h, cwd |-> [path |-> IF win THEN "/c:/home/u" ELSE "/home/u"],
      foldersRequested |-> fo, filesRequested |-> fi,
      pathSeparator |-> IF win THEN "\\" ELSE "/"] :
        h \in BOOLEAN, fo \in BOOLEAN, fi \in BOOLEAN}

\* the locations whose lookup may fail with an I/O error
FailingSets(win) ==
    IF win THEN {{}, {"/c:/src"}, {"/c:/home/u"}, {"/c:/opt"}}
    ELSE {{}, {"/home/u/src"}, {"/home/u"}, {"/opt"}}

CdPathSettings == {"off", "absolute", "relative"}

-----------------------------------------------------------------------------
(* Path resolution on its own: resolveResources called directly *)

ResolvePrompts(win) ==
    IF win
    THEN {"cd C:/src/", "cd c:\\src\\w", "cd ~/", "cd ./src/", "cd ", "dir .\\s"}
    ELSE {"cd ./src/", "cd ~/", "cd ~/src/", "cd /home/u/", "cd src/l", "cd ",
          "ls ../", "cat f", "cd nope/"}

InitResolve ==
    /\ isWindows \in BOOLEAN
    /\ cdPathConfig \in CdPathSettings
    /\ \E promptValue \in ResolvePrompts(isWindows) :
       \E cursorPosition \in Cursors(promptValue) :
       \E cfg \in ResourceRequestConfigs(isWindows) :
       \E capabilities \in CapabilityStores(isWindows) :
       \E failing \in FailingSets(isWindows) :
          resourceRequest = [called |-> TRUE,
                             resourceRequestConfig |-> cfg,
                             promptValue |-> promptValue,
                             cursorPosition |-> cursorPosition,
                             provider |-> "p",
                             capabilities |-> capabilities,
                             failing |-> failing]
    /\ result = PendingPromise
    /\ lookups = <<>>
    /\ _providers = <<>>
    /\ disposables = <<>>
    /\ providerConfig = <<>>
    /\ request = NoRequest
    /\ selected = <<>>
    /\ completionPromises = <<>>
    /\ invocations = <<>>
    /\ cache = <<>>
    /\ returned = <<>>
    /\ NoDiscovery

\* the outcome of the pending resolveResources call
ResolveOutcome ==
    ResolveResources(resourceRequest.resourceRequestConfig, resourceRequest.promptValue,
                     resourceRequest.cursorPosition, resourceRequest.provider,
                     resourceRequest.capabilities, cdPathConfig,
                     resourceRequest.failing, isWindows)

\* resolveResources runs to its end
ResolveResourcesCall ==
    /\ resourceRequest.called
    /\ result.state = "pending"
    /\ result' = PromiseOf(ResolveOutcome)
    /\ lookups' = ResolveOutcome.lookups
    /\ UNCHANGED <<isWindows, _providers, disposables, providerConfig, cdPathConfig, request,
                   selected, completionPromises, invocations, resourceRequest, cache, returned,
                   discoveryVars>>

NextResolve == ResolveResourcesCall

SpecResolve == InitResolve /\ [][NextResolve]_vars


-----------------------------------------------------------------------------
(* The provider registry: Map<ext id, Map<provider id, provider>>.             *)
(* A Map is a sequence of [key, value] entries in insertion order.             *)

\* the index of `key` in the map, 0 when absent
MapIndex(map, key) ==
    IF \E i \in 1..Len(map) : map[i].key = key
    THEN CHOOSE i \in 1..Len(map) : map[i].key = key
    ELSE 0

MapHas(map, key) == MapIndex(map, key) # 0

\* Map.prototype.set: a present key keeps its place and gets the new value
MapSet(map, key, value) ==
    IF MapHas(map, key)
    THEN [map EXCEPT ![MapIndex(map, key)] = [key |-> key, value |-> value]]
    ELSE Append(map, [key |-> key, value |-> value])

\* Map.prototype.delete
MapDelete(map, key) ==
    IF MapHas(map, key)
    THEN SubSeq(map, 1, MapIndex(map, key) - 1) \o SubSeq(map, MapIndex(map, key) + 1, Len(map))
    ELSE map

\* [...map.values()]
MapValues(map) == [i \in 1..Len(map) |-> map[i].value]

RECURSIVE Flat(_)
Flat(seqs) == IF Len(seqs) = 0 THEN <<>> ELSE Head(seqs) \o Flat(Tail(seqs))

\* _providersGenerator (lines 80-86), and the flatMap of line 136: every provider, by
\* namespace and then by id, in insertion order
ProvidersOf(providers) == Flat([i \in 1..Len(providers) |-> MapValues(providers[i].value)])

\* the providers that extensions register: the namespace and id of the registration,
\* the trigger characters passed with it, and what the provider object declares
ProviderCatalogue ==
    {[ext |-> "e1", id |-> "a", isBuiltin |-> TRUE, hasShellTypes |-> FALSE,
      shellTypes |-> {}, triggerCharacters |-> <<"-", "/">>],
     [ext |-> "e1", id |-> "b", isBuiltin |-> FALSE, hasShellTypes |-> FALSE,
      shellTypes |-> {}, triggerCharacters |-> <<>>],
     [ext |-> "e2", id |-> "a", isBuiltin |-> FALSE, hasShellTypes |-> TRUE,
      shellTypes |-> {"pwsh"}, triggerCharacters |-> <<"/">>],
     [ext |-> "e2", id |-> "c", isBuiltin |-> TRUE, hasShellTypes |-> TRUE,
      shellTypes |-> {"bash"}, triggerCharacters |-> <<>>]}

\* registerTerminalCompletionProvider(extensionIdentifier, id, provider,
\* ...triggerCharacters), lines 95-103; `obj` names the provider object
RegisterTerminalCompletionProvider(reg) ==
    /\ Len(disposables) < MaxRegistrations
    /\ ~request.called
    /\ LET obj == Len(disposables) + 1
           provider == [obj |-> obj,
                        id |-> reg.id,
                        triggerCharacters |-> reg.triggerCharacters,
                        isBuiltin |-> reg.isBuiltin,
                        hasShellTypes |-> reg.hasShellTypes,
                        shellTypes |-> reg.shellTypes]
           extMap == IF MapHas(_providers, reg.ext)
                     THEN _providers[MapIndex(_providers, reg.ext)].value
                     ELSE <<>>
       IN  /\ _providers' = MapSet(_providers, reg.ext, MapSet(extMap, reg.id, provider))
           /\ disposables' = Append(disposables,
                                    [ext |-> reg.ext, id |-> reg.id, isDisposed |-> FALSE])
    /\ UNCHANGED <<isWindows, providerConfig, cdPathConfig, request, selected,
                   completionPromises, result, invocations, lookups, resourceRequest,
                   cache, returned,
                   discoveryVars>>

\* mutant: the namespace bucket is kept when its last provider is deleted
Unregister_KeepsBucket(providers, ext, id) ==
    IF MapHas(providers, ext)
    THEN MapSet(providers, ext, MapDelete(providers[MapIndex(providers, ext)].value, id))
    ELSE providers

\* the function given to toDisposable, lines 104-112
Unregister(providers, ext, id) ==
    IF MapHas(providers, ext)
    THEN LET extMap == MapDelete(providers[MapIndex(providers, ext)].value, id)
         IN  IF Len(extMap) = 0 THEN MapDelete(providers, ext)
             ELSE MapSet(providers, ext, extMap)
    ELSE providers

\* dispose() of the handle of registration h; a disposable runs its function once
Dispose(h) ==
    /\ h \in 1..Len(disposables)
    /\ ~request.called
    /\ IF disposables[h].isDisposed
       THEN UNCHANGED <<_providers, disposables>>
       ELSE /\ _providers' = Unregister(_providers, disposables[h].ext, disposables[h].id)
            /\ disposables' = [disposables EXCEPT ![h].isDisposed = TRUE]
    /\ UNCHANGED <<isWindows, providerConfig, cdPathConfig, request, selected,
                   completionPromises, result, invocations, lookups, resourceRequest,
                   cache, returned,
                   discoveryVars>>


-----------------------------------------------------------------------------
(* TerminalCompletionService.provideCompletions and _collectCompletions *)

\* Array.prototype.filter: the elements of seq at the indices of `keep`, in order
RECURSIVE KeepFrom(_, _, _)
KeepFrom(seq, keep, i) ==
    IF i > Len(seq) THEN <<>>
    ELSE (IF i \in keep THEN <<seq[i]>> ELSE <<>>) \o KeepFrom(seq, keep, i + 1)

\* mutant: the prompt is not compared with the trigger characters
TriggeredBy_Always(provider, promptValue, cursorPosition) == TRUE

\* lines 124-132: one of the provider's trigger characters ends the prompt up to the cursor
TriggeredBy(provider, promptValue, cursorPosition) ==
    \E i \in 1..Len(provider.triggerCharacters) :
        EndsWith(Substring(promptValue, 0, cursorPosition), provider.triggerCharacters[i])

\* lines 121-137: the providers a request starts from
TriggerFilter(providers, promptValue, cursorPosition, triggerCharacter) ==
    LET all == ProvidersOf(providers)
    IN  IF triggerCharacter
        THEN KeepFrom(all, {i \in 1..Len(all) :
                               TriggeredBy(all[i], promptValue, cursorPosition)}, 1)
        ELSE all

\* line 140
BuiltinFilter(providers) ==
    KeepFrom(providers, {i \in 1..Len(providers) : providers[i].isBuiltin}, 1)

\* mutant: a provider missing from the setting counts as enabled
IsEnabled_UnlessDisabled(provider, config) ==
    provider.id # "" /\ (provider.id \notin DOMAIN config \/ config[provider.id] # FALSE)

\* line 147: the provider's id is in the Providers setting and not set to false
IsEnabled(provider, config) ==
    provider.id # "" /\ provider.id \in DOMAIN config /\ config[provider.id] # FALSE

\* lines 144-148: the providers the Providers setting enables
EnablementFilter(providers, config) ==
    KeepFrom(providers, {i \in 1..Len(providers) : IsEnabled(providers[i], config)}, 1)

\* the providers array handed to _collectCompletions
SelectedProviders(providers, config, req) ==
    LET candidates == TriggerFilter(providers, req.promptValue, req.cursorPosition,
                                    req.triggerCharacter)
    IN  IF req.skipExtensionCompletions THEN BuiltinFilter(candidates)
        ELSE EnablementFilter(candidates, config)

\* mutant: the cursor offset is not checked
ReturnsImmediately_NoCursorCheck(providers, config, req) ==
    /\ ~req.skipExtensionCompletions
    /\ Len(SelectedProviders(providers, config, req)) = 0

\* mutant: a builtin-only request with no provider left returns at once as well
ReturnsImmediately_AlsoBuiltinOnly(providers, config, req) ==
    \/ req.cursorPosition < 0
    \/ Len(SelectedProviders(providers, config, req)) = 0

\* whether provideCompletions returns before _collectCompletions (lines 116-118, 150-152)
ReturnsImmediately(providers, config, req) ==
    \/ req.cursorPosition < 0
    \/ /\ ~req.skipExtensionCompletions
       /\ Len(SelectedProviders(providers, config, req)) = 0

\* mutant: the shell types a provider declares are not looked at
ShellTypeMismatch_Never(provider, shellType) == FALSE

\* line 159: the provider does not apply to the shell type
ShellTypeMismatch(provider, shellType) ==
    provider.hasShellTypes /\ shellType \notin provider.shellTypes

\* the promise of one callback of providers.map up to its first await (lines 158-162)
StartedPromise(provider, shellType) ==
    IF ShellTypeMismatch(provider, shellType) THEN UndefinedPromise ELSE PendingPromise

\* mutant: Promise.allSettled, the rejected promises are skipped
PromiseAll_Settled(promises) ==
    IF \E i \in 1..Len(promises) : promises[i].state = "pending" THEN PendingPromise
    ELSE ItemsPromise(Flat([i \in 1..Len(promises) |->
                                IF promises[i].hasValue THEN promises[i].items ELSE <<>>]))

\* mutant: the groups are flattened from the last provider to the first
PromiseAll_Reversed(promises) ==
    IF \E i \in 1..Len(promises) : promises[i].state = "rejected" THEN RejectedPromise
    ELSE IF \E i \in 1..Len(promises) : promises[i].state = "pending" THEN PendingPromise
    ELSE ItemsPromise(Flat([i \in 1..Len(promises) |->
                                LET j == Len(promises) + 1 - i
                                IN  IF promises[j].hasValue THEN promises[j].items ELSE <<>>]))

\* await Promise.all(completionPromises), then results.filter(result => !!result).flat():
\* rejected as soon as one promise is rejected, fulfilled once all are
PromiseAll(promises) ==
    IF \E i \in 1..Len(promises) : promises[i].state = "rejected" THEN RejectedPromise
    ELSE IF \E i \in 1..Len(promises) : promises[i].state = "pending" THEN PendingPromise
    ELSE ItemsPromise(Flat([i \in 1..Len(promises) |->
                                IF promises[i].hasValue THEN promises[i].items ELSE <<>>]))

\* mutant: the flag is assigned whatever the provider wrote
WithFileOverride_Overwrites(item, shellType) ==
    IF shellType = "pwsh"
    THEN [item EXCEPT !.isFileOverride =
              IF item.kind = "Method" /\ item.replacementIndex = 0 THEN "true" ELSE "false"]
    ELSE item

\* lines 167-171: PowerShell marks method items that replace from offset 0
WithFileOverride(item, shellType) ==
    IF shellType = "pwsh" /\ item.isFileOverride = Undefined
    THEN [item EXCEPT !.isFileOverride =
              IF item.kind = "Method" /\ item.replacementIndex = 0 THEN "true" ELSE "false"]
    ELSE item

\* mutant: the provider field is left as the provider wrote it
WithProvider_Kept(item, provider) == item

\* lines 172-177: items of a builtin provider carry its id
WithProvider(item, provider) ==
    IF provider.isBuiltin THEN [item EXCEPT !.provider = provider.id] ELSE item

\* lines 166-177: completionItems after both loops
CompletionItems(provider, completions, shellType) ==
    LET items == IF completions.isArray \/ completions.hasItems THEN completions.items
                 ELSE <<>>
    IN  [i \in 1..Len(items) |-> WithProvider(WithFileOverride(items[i], shellType), provider)]

\* lines 182-186: the items of the provider followed by the resource completions; a
\* mutant: a rejected resolveResources is caught and the provider's items returned
WithResourceCompletions_Swallowed(completionItems, resourceCompletions) ==
    IF resourceCompletions.hasValue
    THEN Fulfilled(completionItems \o resourceCompletions.items, resourceCompletions.lookups)
    ELSE Fulfilled(completionItems, resourceCompletions.lookups)

\* rejected resolveResources rejects the callback
WithResourceCompletions(completionItems, resourceCompletions) ==
    IF resourceCompletions.rejected THEN Rejected(resourceCompletions.lookups)
    ELSE IF resourceCompletions.hasValue
    THEN Fulfilled(completionItems \o resourceCompletions.items, resourceCompletions.lookups)
    ELSE Fulfilled(completionItems, resourceCompletions.lookups)

\* lines 162-188: what the callback of providers.map returns once the provider's
\* promise has settled with `completions`
ProviderResult(provider, completions, req, config, failing, win) ==
    IF completions.rejected THEN Rejected(<<>>)
    ELSE IF completions.isUndefined THEN FulfilledUndefined(<<>>)
    ELSE IF completions.isArray
    THEN Fulfilled(CompletionItems(provider, completions, req.shellType), <<>>)
    ELSE IF completions.hasResourceRequestConfig
    THEN WithResourceCompletions(
             CompletionItems(provider, completions, req.shellType),
             ResolveResources(completions.resourceRequestConfig, req.promptValue,
                              req.cursorPosition, provider.id, req.capabilities, config,
                              failing, win))
    ELSE FulfilledUndefined(<<>>)

-----------------------------------------------------------------------------
(* The requests made of the service and the answers of the providers *)

\* the prompts of the requests
Prompts == {"./", "l -"}

ShellTypes == {"bash", "pwsh"}

\* the Providers setting: a provider id may be enabled, disabled or missing
ProviderConfigs == {[a |-> TRUE, b |-> FALSE], [a |-> FALSE, b |-> TRUE, c |-> TRUE]}

\* the capability store of the terminal of the requests
RequestCapabilities == [shellEnvDetection |-> TRUE, env |-> [HOME |-> "/home/u"]]

\* the locations whose lookup may fail with an I/O error while a request is served
RequestFailingSets == {{}, {"/home/u"}}

\* an item as a provider builds it; `provider` is whatever the provider wrote there
ProviderItem(label, kind, replacementIndex, replacementLength, isFileOverride) ==
    [label |-> label,
     provider |-> "self",
     kind |-> kind,
     detail |-> Undefined,
     replacementIndex |-> replacementIndex,
     replacementLength |-> replacementLength,
     isFileOverride |-> isFileOverride]

\* the items of provider object `obj` for a request: a method replacing the whole line,
\* a method with isFileOverride set to false, and a flag replacing nothing at offset 1,
\* on which the second provider object sets isFileOverride to true
ProviderItems(obj, cursorPosition) ==
    <<ProviderItem("m" \o ToString(obj), "Method", 0, cursorPosition, Undefined),
      ProviderItem("n" \o ToString(obj), "Method", 0, cursorPosition, "false"),
      ProviderItem("f" \o ToString(obj), "Flag", 1, 0,
                   IF obj = 2 THEN "true" ELSE Undefined)>>

NoResourceRequestConfig ==
    [hasCwd |-> FALSE, cwd |-> [path |-> ""], foldersRequested |-> FALSE,
     filesRequested |-> FALSE, pathSeparator |-> "/"]

\* what the promise of provider.provideCompletions settles with: a rejection,
\* undefined, an array of items, or a TerminalCompletionList
Completions(rejected, isUndefined, isArray, hasItems, items, hasConfig, cfg) ==
    [rejected |-> rejected, isUndefined |-> isUndefined, isArray |-> isArray,
     hasItems |-> hasItems, items |-> items,
     hasResourceRequestConfig |-> hasConfig, resourceRequestConfig |-> cfg]

\* the resource request of the providers that make one: folders of the working directory
RequestedFolders ==
    [hasCwd |-> TRUE, cwd |-> [path |-> "/home/u"], foldersRequested |-> TRUE,
     filesRequested |-> FALSE, pathSeparator |-> "/"]

\* a resource request whose working directory is a regular file
RequestedOfFile ==
    [hasCwd |-> TRUE, cwd |-> [path |-> "/home/u/f.txt"], foldersRequested |-> TRUE,
     filesRequested |-> FALSE, pathSeparator |-> "/"]

\* a resource request whose working directory does not exist
RequestedOfMissing ==
    [hasCwd |-> TRUE, cwd |-> [path |-> "/home/u/nope"], foldersRequested |-> TRUE,
     filesRequested |-> FALSE, pathSeparator |-> "/"]

ProviderCompletions(obj, cursorPosition) ==
    LET items == ProviderItems(obj, cursorPosition)
    IN  {Completions(TRUE, FALSE, FALSE, FALSE, <<>>, FALSE, NoResourceRequestConfig),
         Completions(FALSE, TRUE, FALSE, FALSE, <<>>, FALSE, NoResourceRequestConfig),
         Completions(FALSE, FALSE, TRUE, TRUE, <<>>, FALSE, NoResourceRequestConfig),
         Completions(FALSE, FALSE, TRUE, TRUE, items, FALSE, NoResourceRequestConfig),
         Completions(FALSE, FALSE, FALSE, TRUE, items, FALSE, NoResourceRequestConfig),
         Completions(FALSE, FALSE, FALSE, TRUE, items, TRUE, RequestedFolders),
         Completions(FALSE, FALSE, FALSE, TRUE, items, TRUE, RequestedOfFile),
         Completions(FALSE, FALSE, FALSE, TRUE, items, TRUE, RequestedOfMissing),
         Completions(FALSE, FALSE, FALSE, FALSE, <<>>, TRUE, RequestedFolders)}

-----------------------------------------------------------------------------
(* The service: registrations and disposals, then a request.                    *)
(* A request reads the registry once, when it starts, and writes no field of   *)
(* the service, so a behaviour follows the registry up to the start of one     *)
(* request and then that request to its end.                                   *)

Init ==
    /\ isWindows = FALSE
    /\ _providers = <<>>
    /\ disposables = <<>>
    /\ providerConfig \in ProviderConfigs
    /\ cdPathConfig = "off"
    /\ request = NoRequest
    /\ selected = <<>>
    /\ completionPromises = <<>>
    /\ result = NoPromise
    /\ invocations = <<>>
    /\ lookups = <<>>
    /\ resourceRequest = NoResourceRequest
    /\ cache = <<>>
    /\ returned = <<>>
    /\ NoDiscovery

\* provideCompletions(promptValue, cursorPosition, shellType, capabilities, token,
\* triggerCharacter, skipExtensionCompletions) up to its first await: the selection of
\* the providers and the synchronous part of every callback of providers.map
ProvideCompletions(promptValue, cursorPosition, shellType, triggerCharacter, skipExtensionCompletions) ==
    LET req == [called |-> TRUE,
                promptValue |-> promptValue,
                cursorPosition |-> cursorPosition,
                shellType |-> shellType,
                triggerCharacter |-> triggerCharacter,
                skipExtensionCompletions |-> skipExtensionCompletions,
                capabilities |-> RequestCapabilities]
        providers == SelectedProviders(_providers, providerConfig, req)
        promises == [i \in 1..Len(providers) |-> StartedPromise(providers[i], shellType)]
        invoked == KeepFrom(providers, {i \in 1..Len(providers) :
                                           ~ShellTypeMismatch(providers[i], shellType)}, 1)
    IN  /\ ~request.called
        /\ request' = req
        /\ lookups' = <<>>
        /\ IF ReturnsImmediately(_providers, providerConfig, req)
           THEN /\ selected' = <<>>
                /\ completionPromises' = <<>>
                /\ invocations' = <<>>
                /\ result' = UndefinedPromise
           ELSE /\ selected' = providers
                /\ completionPromises' = promises
                /\ invocations' = [i \in 1..Len(invoked) |-> invoked[i].obj]
                /\ result' = PromiseAll(promises)
        /\ UNCHANGED <<isWindows, _providers, disposables, providerConfig, cdPathConfig,
                       resourceRequest, cache, returned,
                   discoveryVars>>

\* the i-th promise of completionPromises settles with `outcome`; Promise.all follows
Settle(i, outcome) ==
    /\ completionPromises' = [completionPromises EXCEPT ![i] = PromiseOf(outcome)]
    /\ lookups' = lookups \o outcome.lookups
    /\ result' = IF result.state = "pending"
                 THEN PromiseAll([completionPromises EXCEPT ![i] = PromiseOf(outcome)])
                 ELSE result

\* the promise of the i-th selected provider settles with `completions`, and its
\* callback runs to its end (lines 162-188); `failing` are the locations whose lookup
\* fails meanwhile
ProviderSettles(i, completions, failing) ==
    /\ i \in 1..Len(completionPromises)
    /\ completionPromises[i].state = "pending"
    /\ Settle(i, ProviderResult(selected[i], completions, request, cdPathConfig, failing,
                                isWindows))
    /\ UNCHANGED <<isWindows, _providers, disposables, providerConfig, cdPathConfig, request,
                   selected, invocations, resourceRequest, cache, returned,
                   discoveryVars>>

Next ==
    \/ \E reg \in ProviderCatalogue : RegisterTerminalCompletionProvider(reg)
    \/ \E h \in 1..Len(disposables) : Dispose(h)
    \/ \E promptValue \in Prompts, shellType \in ShellTypes,
          triggerCharacter \in BOOLEAN, skipExtensionCompletions \in BOOLEAN :
          \E cursorPosition \in Cursors(promptValue) :
             ProvideCompletions(promptValue, cursorPosition, shellType, triggerCharacter,
                                skipExtensionCompletions)
    \/ \E i \in 1..Len(completionPromises) :
          \E completions \in ProviderCompletions(selected[i].obj, request.cursorPosition),
             failing \in RequestFailingSets :
             ProviderSettles(i, completions, failing)

Spec == Init /\ [][Next]_vars


-----------------------------------------------------------------------------
(* Properties of provideCompletions, checked under Spec *)

\* the registered providers
Registered == {ProvidersOf(_providers)[i] : i \in 1..Len(ProvidersOf(_providers))}

\* the character before the cursor of the request, "" at the start of the prompt
CharBeforeCursor ==
    LET n == Min(request.cursorPosition, Len(request.promptValue))
    IN  IF n >= 1 THEN SubSeq(request.promptValue, n, n) ELSE ""

\* the length of the text after the last space before the cursor of the request
CurrentWordLength ==
    LET n == Max(0, Min(request.cursorPosition, Len(request.promptValue)))
        spaces == {i \in 1..n : SubSeq(request.promptValue, i, i) = " "}
    IN  IF spaces = {} THEN n ELSE n - (CHOOSE i \in spaces : \A j \in spaces : j <= i)

\* the registered providers that pass the filters of the request
Survivors ==
    {p \in Registered :
        /\ request.triggerCharacter =>
              \E i \in 1..Len(p.triggerCharacters) : p.triggerCharacters[i] = CharBeforeCursor
        /\ request.skipExtensionCompletions => p.isBuiltin
        /\ ~request.skipExtensionCompletions =>
              (p.id \in DOMAIN providerConfig /\ providerConfig[p.id] = TRUE)}

ResultItems == {result.items[i] : i \in 1..Len(result.items)}

\* C1: a request with a negative cursor offset gets "no result" (undefined) whatever
\* its other arguments and the registry are, and no provider is invoked
C1_NegativeCursorNoResult ==
    (request.called /\ request.cursorPosition < 0) =>
        /\ result = UndefinedPromise
        /\ invocations = <<>>
        /\ completionPromises = <<>>

\* C1 witness: a negative cursor in a request that an enabled provider would serve
C1_Witness ==
    /\ request.called
    /\ request.cursorPosition < 0
    /\ ~request.triggerCharacter
    /\ ~request.skipExtensionCompletions
    /\ \E p \in Registered : p.id \in DOMAIN providerConfig /\ providerConfig[p.id]
    /\ result = UndefinedPromise

\* C2 as stated: every item of the returned list, from a provider or from path
\* resolution, replaces exactly the current word up to the cursor
C2_EveryItemCoversCurrentWord ==
    (request.called /\ result.state = "fulfilled" /\ result.hasValue) =>
        \A item \in ResultItems :
            /\ item.replacementIndex + item.replacementLength = request.cursorPosition
            /\ item.replacementLength = CurrentWordLength

\* C2 amended: every item of the returned list that path resolution produced (the file
\* and folder items; the providers here supply methods and flags) replaces exactly the
\* current word up to the cursor; a provider's item keeps the span the provider gave it
C2_ResourceItemsCoverCurrentWord ==
    (request.called /\ result.state = "fulfilled" /\ result.hasValue) =>
        \A item \in ResultItems :
            IF item.kind \in {"File", "Folder"}
            THEN /\ item.replacementIndex + item.replacementLength = request.cursorPosition
                 /\ item.replacementLength = CurrentWordLength
            ELSE \E i \in 1..Len(selected) :
                    \E j \in 1..3 :
                       LET given == ProviderItems(selected[i].obj, request.cursorPosition)[j]
                       IN  /\ item.label = given.label
                           /\ item.replacementIndex = given.replacementIndex
                           /\ item.replacementLength = given.replacementLength

\* C2 witness: a returned list with a provider's items followed by folder items that
\* replace a current word of two characters
C2_Witness ==
    /\ request.called
    /\ result.state = "fulfilled"
    /\ CurrentWordLength = 2
    /\ \E item \in ResultItems : item.kind = "Folder" /\ item.replacementLength = 2
    /\ \E item \in ResultItems : item.kind = "Flag"

\* C3: in a request initiated by a trigger character a provider is selected only if one
\* of its trigger characters ends the prompt cut at the cursor; a provider registered
\* without trigger characters is never selected
C3_TriggerCharacterSelection ==
    (request.called /\ request.triggerCharacter) =>
        /\ \A i \in 1..Len(selected) :
              /\ Len(selected[i].triggerCharacters) > 0
              /\ \E j \in 1..Len(selected[i].triggerCharacters) :
                    selected[i].triggerCharacters[j] = CharBeforeCursor
        /\ \A k \in 1..Len(invocations) :
              \E p \in Registered :
                 /\ p.obj = invocations[k]
                 /\ \E j \in 1..Len(p.triggerCharacters) :
                       p.triggerCharacters[j] = CharBeforeCursor

\* C3 witness: a trigger request that selects a provider by its second trigger
\* character while a provider without trigger characters is registered and left out
C3_Witness ==
    /\ request.called
    /\ request.triggerCharacter
    /\ CharBeforeCursor = "/"
    /\ Len(selected) = 1
    /\ selected[1].triggerCharacters = <<"-", "/">>
    /\ \E p \in Registered : p.triggerCharacters = <<>>


\* C4: a builtin-only request returns items of builtin providers only, each carrying its
\* provider's id; the enablement mapping is not consulted, so a builtin provider that
\* the mapping omits or disables is still selected
C4_BuiltinOnlyRequest ==
    (request.called /\ request.skipExtensionCompletions /\ request.cursorPosition >= 0) =>
        /\ \A i \in 1..Len(selected) : selected[i].isBuiltin
        /\ \A p \in Survivors : \E i \in 1..Len(selected) : selected[i] = p
        /\ \A k \in 1..Len(invocations) :
              \E p \in Registered : p.obj = invocations[k] /\ p.isBuiltin
        /\ (result.state = "fulfilled" /\ result.hasValue) =>
              \A item \in ResultItems :
                 \E i \in 1..Len(selected) :
                    selected[i].isBuiltin /\ item.provider = selected[i].id

\* C4 witness: a builtin-only request answered with the items of a builtin provider that
\* the mapping disables, while a provider that is not builtin is registered
C4_Witness ==
    /\ request.called
    /\ request.skipExtensionCompletions
    /\ \E p \in Registered : ~p.isBuiltin
    /\ \E p \in Registered :
          /\ p.isBuiltin
          /\ p.id \in DOMAIN providerConfig
          /\ providerConfig[p.id] = FALSE
          /\ result.state = "fulfilled"
          /\ \E item \in ResultItems : item.provider = p.id

NothingFound ==
    /\ Len(selected) > 0
    /\ \A i \in 1..Len(completionPromises) :
          /\ completionPromises[i].state = "fulfilled"
          /\ completionPromises[i].items = <<>>

\* C6 as stated: a request that no provider survives gets "no result" and never an empty
\* list; an empty list is returned only when the selected providers found nothing
C6_NoSurvivorNoResult ==
    (request.called /\ request.cursorPosition >= 0) =>
        /\ Survivors = {} => result = UndefinedPromise
        /\ result = ItemsPromise(<<>>) => NothingFound

\* C6 amended: when builtin-only is not requested, a request that no provider survives
\* gets "no result" and never an empty list, and an empty list is returned only when
\* the selected providers found nothing; a builtin-only request that no provider
\* survives gets an empty list
C6_NoSurvivorUnlessBuiltinOnly ==
    (request.called /\ request.cursorPosition >= 0) =>
        /\ (Survivors = {} /\ ~request.skipExtensionCompletions) => result = UndefinedPromise
        /\ (Survivors = {} /\ request.skipExtensionCompletions) => result = ItemsPromise(<<>>)
        /\ result = ItemsPromise(<<>>) =>
              \/ NothingFound
              \/ request.skipExtensionCompletions /\ Survivors = {}

\* C6 witness: a builtin-only request to a registry without a builtin provider is
\* answered with an empty list
C6_Witness ==
    /\ request.called
    /\ request.cursorPosition >= 0
    /\ request.skipExtensionCompletions
    /\ Registered # {}
    /\ Survivors = {}
    /\ result = ItemsPromise(<<>>)

\* the primary directory lookup of a resource request of the request rejects
PrimaryLookupRejects(completions, failing) ==
    /\ ~completions.rejected
    /\ ~completions.isUndefined
    /\ ~completions.isArray
    /\ completions.hasResourceRequestConfig
    /\ \/ completions.resourceRequestConfig.cwd.path \in failing
       \/ completions.resourceRequestConfig.cwd.path = "/home/u/nope"

\* the step made one lookup, that of the working directory of the resource request
DirectoryLookedUp(completions) ==
    lookups' = Append(lookups, completions.resourceRequestConfig.cwd.path)

\* C10: once the invocation of a selected provider rejects, or the primary directory
\* lookup of its resource request is made and rejects, provideCompletions rejects; it
\* never resolves with the items of the providers that succeeded
C10_RejectionPropagates ==
    /\ [](\A i \in 1..Len(completionPromises) :
             completionPromises[i].state = "rejected" => result.state = "rejected")
    /\ [][\A i \in 1..Len(completionPromises) :
             (completionPromises[i].state = "pending" /\ completionPromises'[i].state # "pending") =>
                \A completions \in ProviderCompletions(selected[i].obj, request.cursorPosition) :
                   \A failing \in RequestFailingSets :
                      (/\ \/ completions.rejected
                          \/ /\ PrimaryLookupRejects(completions, failing)
                             /\ DirectoryLookedUp(completions)
                       /\ ProviderSettles(i, completions, failing))
                      => (completionPromises'[i].state = "rejected" /\ result'.state = "rejected")]_vars

\* C10 witness: one provider answered with items of its own, the directory lookup for
\* the other was made and failed, and the request is rejected
C10_Witness ==
    /\ Len(completionPromises) = 2
    /\ completionPromises[1].state = "fulfilled"
    /\ completionPromises[1].items # <<>>
    /\ \A k \in 1..Len(completionPromises[1].items) :
          completionPromises[1].items[k].kind \notin {"File", "Folder"}
    /\ completionPromises[2].state = "rejected"
    /\ lookups = <<"/home/u">>
    /\ result.state = "rejected"


-----------------------------------------------------------------------------
(* Properties of resolveResources, checked under SpecResolve *)

ReqConfig == resourceRequest.resourceRequestConfig

\* the current word of the resource request and its folder prefix
ReqWord ==
    LastWord(CursorPrefix(ReqConfig, resourceRequest.promptValue,
                          resourceRequest.cursorPosition))

ReqFolder == LastWordFolder(ReqConfig, ReqWord)

ReqType == PathType(ReqConfig, ReqWord)

\* the resource request asks for something of a working directory, and the call ended
ReqAnswered ==
    /\ resourceRequest.called
    /\ result.state \in {"fulfilled", "rejected"}
    /\ ReqConfig.hasCwd
    /\ ReqConfig.foldersRequested \/ ReqConfig.filesRequested

\* the home directory of the resource request, "" when it is not known
ReqHome ==
    IF /\ resourceRequest.capabilities.shellEnvDetection
       /\ "HOME" \in DOMAIN resourceRequest.capabilities.env
    THEN resourceRequest.capabilities.env.HOME
    ELSE ""

\* the labels of the returned items, in order
ResultLabels == [i \in 1..Len(result.items) |-> result.items[i].label]

\* the location without its trailing slash
Directory(path) ==
    IF Len(path) > 1 /\ SubSeq(path, Len(path), Len(path)) = "/"
    THEN SubSeq(path, 1, Len(path) - 1) ELSE path

\* C7: for a relative current word with a folder prefix the directory that is listed is
\* the folder prefix resolved against the working directory: with cwd /home/u, prompt
\* `cd ./src/`, the cursor at the end, folders requested and files not, the items are
\* the self item `./src/`, one item per subdirectory of /home/u/src, and `./src/../`
C7_RelativeFolderListed ==
    (/\ ReqAnswered
     /\ ~isWindows
     /\ resourceRequest.promptValue = "cd ./src/"
     /\ resourceRequest.cursorPosition = 9
     /\ ReqConfig.cwd.path = "/home/u"
     /\ ReqConfig.foldersRequested
     /\ ~ReqConfig.filesRequested
     /\ resourceRequest.failing = {}
     /\ cdPathConfig = "off") =>
        /\ Len(lookups) = 1
        /\ Directory(lookups[1]) = "/home/u/src"
        /\ result.state = "fulfilled"
        /\ ResultLabels = <<"./src/", "./src/lib/", "./src/app/", "./src/../">>

\* C8: for a current word that starts with `~/` and the separator `/`: when HOME is known
\* the one directory looked up is HOME joined with the folder prefix without its `~`, and
\* the labels keep the folder prefix, so they start with `~/`; when HOME or the
\* environment capability is missing the result is one folder item labelled with the
\* folder prefix, with detail `$HOME`, and no directory is looked up
C8_TildeResolution ==
    (ReqAnswered /\ ~isWindows /\ ReqType = "tilde") =>
        IF ReqHome # ""
        THEN /\ Len(lookups) = 1
             /\ Directory(lookups[1]) = Directory(ReqHome \o SubSeq(ReqFolder, 2, Len(ReqFolder)))
             /\ \A i \in 1..Len(result.items) :
                   /\ SubSeq(ResultLabels[i], 1, 2) = "~/"
                   /\ SubSeq(ResultLabels[i], 1, Len(ReqFolder)) = ReqFolder
             /\ (/\ resourceRequest.promptValue = "cd ~/src/"
                 /\ resourceRequest.cursorPosition = 10
                 /\ ReqConfig.foldersRequested
                 /\ ReqConfig.filesRequested
                 /\ resourceRequest.failing = {}) =>
                   /\ lookups = <<"/home/u/src/">>
                   /\ ResultLabels = <<"~/src/", "~/src/lib/", "~/src/app/", "~/src/m.ts">>
        ELSE /\ lookups = <<>>
             /\ result.state = "fulfilled"
             /\ Len(result.items) = 1
             /\ result.items[1].label = ReqFolder
             /\ result.items[1].kind = "Folder"
             /\ result.items[1].detail = "$HOME"

\* C8 witness: `cd ~/src/` with HOME known lists /home/u/src under tilde labels
C8_Witness ==
    /\ ReqAnswered
    /\ ~isWindows
    /\ ReqHome = "/home/u"
    /\ resourceRequest.promptValue = "cd ~/src/"
    /\ ReqFolder = "~/src/"
    /\ lookups = <<"/home/u/src/">>
    /\ ResultLabels = <<"~/src/", "~/src/lib/", "~/src/app/", "~/src/m.ts">>


\* the detail is a folder path as Windows shows it
WindowsFolderDetail(detail) ==
    /\ SubSeq(detail, Len(detail), Len(detail)) = "\\"
    /\ IsUpper(SubSeq(detail, 1, 1))
    /\ SubSeq(detail, 2, 2) = ":"

\* every slash of the prompt became a backslash, nothing else changed
SeparatorsNormalized(promptValue, normalized) ==
    /\ Len(normalized) = Len(promptValue)
    /\ \A i \in 1..Len(promptValue) :
          SubSeq(normalized, i, i) =
              IF SubSeq(promptValue, i, i) \in {"/", "\\"} THEN "\\"
              ELSE SubSeq(promptValue, i, i)

\* C9 as stated: with the separator `\` every `/` and `\` of the prompt becomes `\`
\* before the current word is taken, so `cd C:/src/` is absolute with folder prefix
\* `C:\src\`; the detail of every emitted folder item ends with the separator and
\* starts with an upper-case drive letter
C9_EveryFolderDetailWindowsPath ==
    (resourceRequest.called /\ isWindows) =>
        /\ SeparatorsNormalized(resourceRequest.promptValue,
                                NormalizedPrompt(ReqConfig, resourceRequest.promptValue))
        /\ (resourceRequest.promptValue = "cd C:/src/" /\ resourceRequest.cursorPosition = 10) =>
              (ReqType = "absolute" /\ ReqFolder = "C:\\src\\")
        /\ \A i \in 1..Len(result.items) :
              result.items[i].kind = "Folder" => WindowsFolderDetail(result.items[i].detail)

\* C9 amended: with the separator `\` every `/` and `\` of the prompt becomes `\` before
\* the current word is taken, so `cd C:/src/` is absolute with folder prefix `C:\src\`;
\* the detail of every emitted folder item ends with the separator and starts with an
\* upper-case drive letter, except for the item that stands for an unknown home
\* directory (detail `Home directory`) and the items of CDPATH (detail `CDPATH ...`)
C9_FolderDetailWindowsPath ==
    (resourceRequest.called /\ isWindows) =>
        /\ SeparatorsNormalized(resourceRequest.promptValue,
                                NormalizedPrompt(ReqConfig, resourceRequest.promptValue))
        /\ (resourceRequest.promptValue = "cd C:/src/" /\ resourceRequest.cursorPosition = 10) =>
              (ReqType = "absolute" /\ ReqFolder = "C:\\src\\")
        /\ \A i \in 1..Len(result.items) :
              result.items[i].kind = "Folder" =>
                 \/ WindowsFolderDetail(result.items[i].detail)
                 \/ /\ ReqType = "tilde"
                    /\ Len(result.items) = 1
                    /\ lookups = <<>>
                    /\ result.items[i].detail = "Home directory"
                 \/ /\ ReqType = "relative"
                    /\ cdPathConfig # "off"
                    /\ SubSeq(result.items[i].detail, 1, 6) = "CDPATH"

\* C9 witness: the drive typed in lower case is shown in upper case in the details of
\* the folder of the absolute word and of its child
C9_Witness ==
    /\ ReqAnswered
    /\ isWindows
    /\ resourceRequest.promptValue = "cd c:\\src\\w"
    /\ ReqFolder = "c:\\src\\"
    /\ ReqType = "absolute"
    /\ Len(result.items) >= 2
    /\ result.items[1].detail = "C:\\src\\"
    /\ result.items[2].detail = "C:\\src\\win\\"


-----------------------------------------------------------------------------
(* Properties of the second phase within a request, checked under Spec *)

\* the labels of a list of items, in order
LabelsOf(items) == [k \in 1..Len(items) |-> items[k].label]

\* the provider answered with a TerminalCompletionList that carries a resource request
HasResourceRequest(completions) ==
    /\ ~completions.rejected
    /\ ~completions.isUndefined
    /\ ~completions.isArray
    /\ completions.hasResourceRequestConfig

\* the working directory of the resource request is a regular file
ListsAFile(completions) ==
    HasResourceRequest(completions) /\ completions.resourceRequestConfig.cwd.path = "/home/u/f.txt"

\* C11 as stated: when the lookup of the directory of a resource request fails (nothing
\* is there, or an I/O error), resolveResources returns undefined and the provider's own
\* items are what its callback contributes
C11_FailedLookupNoResult ==
    [][\A i \in 1..Len(completionPromises) :
          \A completions \in ProviderCompletions(selected[i].obj, request.cursorPosition) :
             \A failing \in RequestFailingSets :
                (/\ completionPromises[i].state = "pending"
                 /\ PrimaryLookupRejects(completions, failing)
                 /\ ProviderSettles(i, completions, failing))
                => /\ completionPromises'[i].state = "fulfilled"
                   /\ LabelsOf(completionPromises'[i].items) = LabelsOf(completions.items)]_vars

\* C11 amended: when the lookup of the directory of a resource request is made and finds something
\* that has no children (a regular file), resolveResources returns undefined and the
\* provider's own items are what its callback contributes; when the lookup itself fails
\* (nothing is there, or an I/O error), resolveResources rejects and the request with it
C11_FailedLookupRejects ==
    [][\A i \in 1..Len(completionPromises) :
          (completionPromises[i].state = "pending" /\ completionPromises'[i].state # "pending") =>
             \A completions \in ProviderCompletions(selected[i].obj, request.cursorPosition) :
                \A failing \in RequestFailingSets :
                   (/\ PrimaryLookupRejects(completions, failing) \/ ListsAFile(completions)
                    /\ DirectoryLookedUp(completions)
                    /\ ProviderSettles(i, completions, failing))
                   => /\ PrimaryLookupRejects(completions, failing) =>
                            /\ completionPromises'[i].state = "rejected"
                            /\ result'.state = "rejected"
                      /\ ListsAFile(completions) =>
                            /\ completionPromises'[i].state = "fulfilled"
                            /\ completionPromises'[i].hasValue
                            /\ LabelsOf(completionPromises'[i].items) = LabelsOf(completions.items)]_vars

\* C11 witness: the first provider asked for the folders of a regular file and
\* contributed its own three items, the second asked for those of a missing directory
\* and its promise is rejected
C11_Witness ==
    /\ Len(completionPromises) = 2
    /\ lookups = <<"/home/u/f.txt", "/home/u/nope">>
    /\ completionPromises[1].state = "fulfilled"
    /\ Len(completionPromises[1].items) = 3
    /\ completionPromises[2].state = "rejected"
    /\ result.state = "rejected"


-----------------------------------------------------------------------------
(* Properties of the CDPATH search and of the emitted items, under SpecResolve *)

\* the CDPATH search runs for the resource request
ReqSearchesCdPath ==
    /\ ReqAnswered
    /\ ReqType = "relative"
    /\ ReqConfig.foldersRequested
    /\ SubSeq(resourceRequest.promptValue, 1, 3) = "cd "
    /\ cdPathConfig \in {"absolute", "relative"}
    /\ resourceRequest.capabilities.shellEnvDetection
    /\ "CDPATH" \in DOMAIN resourceRequest.capabilities.env

\* the item comes from the CDPATH search
FromCdPath(item) == Len(item.detail) >= 6 /\ SubSeq(item.detail, 1, 6) = "CDPATH"

\* the items of a list that come from CDPATH, and the others, in order
RECURSIVE CdPathItems(_)
CdPathItems(items) ==
    IF Len(items) = 0 THEN <<>>
    ELSE IF FromCdPath(Head(items))
    THEN <<Head(items)>> \o CdPathItems(Tail(items))
    ELSE CdPathItems(Tail(items))

RECURSIVE OtherItems(_)
OtherItems(items) ==
    IF Len(items) = 0 THEN <<>>
    ELSE IF FromCdPath(Head(items))
    THEN OtherItems(Tail(items))
    ELSE <<Head(items)>> \o OtherItems(Tail(items))

\* what the same call returns when the CDPATH search is off
WithoutCdPath ==
    ResolveResources(ReqConfig, resourceRequest.promptValue, resourceRequest.cursorPosition,
                     resourceRequest.provider, resourceRequest.capabilities, "off",
                     resourceRequest.failing, isWindows)

\* C12: in the CDPATH search the failing lookup of an entry is swallowed: with CDPATH
\* naming a missing directory and then opt, both are looked up in that order after the
\* listed directory, the folder of opt is emitted unless the lookup of opt fails as well,
\* the items found before the search are kept, and resolveResources does not fail
C12_CdPathFailureSwallowed ==
    (ReqSearchesCdPath /\ ~WithoutCdPath.rejected /\ WithoutCdPath.hasValue) =>
        /\ result.state = "fulfilled"
        /\ result.hasValue
        /\ lookups = WithoutCdPath.lookups
                     \o (IF isWindows THEN <<"/c:/nope", "/c:/opt">> ELSE <<"/nope", "/opt">>)
        /\ OtherItems(result.items) = WithoutCdPath.items
        /\ LabelsOf(CdPathItems(result.items)) =
              IF (IF isWindows THEN "/c:/opt" ELSE "/opt") \in resourceRequest.failing
              THEN <<>>
              ELSE IF cdPathConfig = "relative" THEN <<"tools">>
              ELSE IF isWindows THEN <<"C:\\opt\\tools\\">> ELSE <<"/opt/tools/">>

\* C12 witness: the lookup of the first CDPATH entry failed, the second was made and
\* its folder is emitted between the children of the working directory and the parent
C12_Witness ==
    /\ ReqSearchesCdPath
    /\ ~isWindows
    /\ cdPathConfig = "relative"
    /\ lookups = <<"/home/u", "/nope", "/opt">>
    /\ ResultLabels = <<".", "./src/", "tools", "../">>


-----------------------------------------------------------------------------
(* Properties of the registry, checked under Spec *)

\* the places <<bucket, position>> of the registry that hold (ext, id)
EntriesAt(providers, ext, id) ==
    {place \in (1..Len(providers)) \X (1..Len(disposables) + 1) :
        /\ providers[place[1]].key = ext
        /\ place[2] <= Len(providers[place[1]].value)
        /\ providers[place[1]].value[place[2]].key = id}

\* the number of providers the registry holds
RegistrySize(providers) == Len(ProvidersOf(providers))

\* C13: the first call of the handle that register(namespace, id, ...) returned removes
\* the (namespace, id) entry and the namespace bucket with it when it becomes empty, so
\* the registry never holds an empty bucket; registering a (namespace, id) that is
\* present replaces the stored provider and adds no entry
C13_RegistryEntries ==
    /\ [](/\ \A i \in 1..Len(_providers) : Len(_providers[i].value) > 0
          /\ \A i, j \in 1..Len(_providers) : _providers[i].key = _providers[j].key => i = j)
    /\ [][/\ \A h \in 1..Len(disposables) :
                (~request.called /\ ~disposables[h].isDisposed /\ Dispose(h)) =>
                   /\ EntriesAt(_providers', disposables[h].ext, disposables[h].id) = {}
                   /\ RegistrySize(_providers') = RegistrySize(_providers)
                         - Cardinality(EntriesAt(_providers, disposables[h].ext,
                                                 disposables[h].id))
          /\ \A reg \in ProviderCatalogue :
                (~request.called /\ RegisterTerminalCompletionProvider(reg)) =>
                   /\ Cardinality(EntriesAt(_providers', reg.ext, reg.id)) = 1
                   /\ \A place \in EntriesAt(_providers', reg.ext, reg.id) :
                         _providers'[place[1]].value[place[2]].value.obj = Len(disposables')
                   /\ RegistrySize(_providers') = RegistrySize(_providers)
                         + (IF EntriesAt(_providers, reg.ext, reg.id) = {} THEN 1 ELSE 0)]_vars

\* C13 witness: the same (namespace, id) was registered twice, and the call of the second
\* handle removed the one entry and its bucket
C13_Witness ==
    /\ Len(disposables) = 2
    /\ disposables[1].ext = disposables[2].ext
    /\ disposables[1].id = disposables[2].id
    /\ ~disposables[1].isDisposed
    /\ disposables[2].isDisposed
    /\ _providers = <<>>


\* the length of the text between the last space before the cursor of the resource
\* request and the cursor (or the end of the prompt when the cursor lies beyond it)
ReqWordLength ==
    LET n == Max(0, Min(resourceRequest.cursorPosition, Len(resourceRequest.promptValue)))
        spaces == {i \in 1..n : SubSeq(resourceRequest.promptValue, i, i) = " "}
    IN  IF spaces = {} THEN n ELSE n - (CHOOSE i \in spaces : \A j \in spaces : j <= i)

-----------------------------------------------------------------------------
(* Providers that hand out the same list object at every request.               *)
(* _collectCompletions works on the object it is given: completionItems is the  *)
(* provider's array (line 166), its items are assigned to (lines 169, 175) and  *)
(* the resource completions are pushed onto it (line 184).                      *)

\* the number of requests served one after the other
MaxRequests == 2

\* the prompt and cursor of these requests
CachePrompt == "./"

CacheCursor == 2

\* the object provider `obj` keeps and returns: an array of items, a
\* TerminalCompletionList with a resource request, or one without
CachedObjects(obj) ==
    {Completions(FALSE, FALSE, TRUE, TRUE, ProviderItems(obj, CacheCursor), FALSE,
                 NoResourceRequestConfig),
     Completions(FALSE, FALSE, FALSE, TRUE, ProviderItems(obj, CacheCursor), TRUE,
                 RequestedFolders),
     Completions(FALSE, FALSE, FALSE, TRUE, ProviderItems(obj, CacheCursor), FALSE,
                 NoResourceRequestConfig)}

InitCache ==
    /\ isWindows = FALSE
    /\ _providers = <<>>
    /\ disposables = <<>>
    /\ providerConfig \in ProviderConfigs
    /\ cdPathConfig = "off"
    /\ request = NoRequest
    /\ selected = <<>>
    /\ completionPromises = <<>>
    /\ result = NoPromise
    /\ invocations = <<>>
    /\ lookups = <<>>
    /\ resourceRequest = NoResourceRequest
    /\ cache \in {c \in [1..MaxRegistrations -> UNION {CachedObjects(obj) : obj \in 1..MaxRegistrations}] :
                     \A obj \in 1..MaxRegistrations : c[obj] \in CachedObjects(obj)}
    /\ returned = <<>>
    /\ NoDiscovery

\* the items of the provider's object after the callback of lines 162-188 has run on it
CacheAfter(provider, completions, shellType, outcome) ==
    IF ~completions.isArray /\ completions.hasResourceRequestConfig /\ ~outcome.rejected
    THEN outcome.items
    ELSE CompletionItems(provider, completions, shellType)

\* the promise of the i-th selected provider settles with the object the provider
\* keeps, and its callback runs to its end on that object
CachedProviderSettles(i) ==
    /\ i \in 1..Len(completionPromises)
    /\ completionPromises[i].state = "pending"
    /\ Settle(i, ProviderResult(selected[i], cache[selected[i].obj], request, cdPathConfig,
                                {}, isWindows))
    /\ cache' = [cache EXCEPT ![selected[i].obj].items =
                    CacheAfter(selected[i], cache[selected[i].obj], request.shellType,
                               ProviderResult(selected[i], cache[selected[i].obj], request,
                                              cdPathConfig, {}, isWindows))]
    /\ UNCHANGED <<isWindows, _providers, disposables, providerConfig, cdPathConfig, request,
                   selected, invocations, resourceRequest, returned,
                   discoveryVars>>

\* the caller receives what the promise of provideCompletions settled with
Return ==
    /\ request.called
    /\ result.state \in {"fulfilled", "rejected"}
    /\ Len(returned) < MaxRequests
    /\ returned' = Append(returned, [request |-> request, providers |-> _providers,
                                     result |-> result])
    /\ request' = NoRequest
    /\ selected' = <<>>
    /\ completionPromises' = <<>>
    /\ result' = NoPromise
    /\ invocations' = <<>>
    /\ lookups' = <<>>
    /\ UNCHANGED <<isWindows, _providers, disposables, providerConfig, cdPathConfig,
                   resourceRequest, cache,
                   discoveryVars>>

NextCache ==
    \/ \E reg \in ProviderCatalogue : RegisterTerminalCompletionProvider(reg)
    \/ \E shellType \in ShellTypes, skipExtensionCompletions \in BOOLEAN :
          /\ Len(returned) < MaxRequests
          /\ ProvideCompletions(CachePrompt, CacheCursor, shellType, FALSE,
                                skipExtensionCompletions)
    \/ \E i \in 1..Len(completionPromises) : CachedProviderSettles(i)
    \/ Return

SpecCache == InitCache /\ [][NextCache]_vars


\* the same request was served twice from the same registry
ServedTwice(a, b) ==
    /\ a < b
    /\ returned[a].request = returned[b].request
    /\ returned[a].providers = returned[b].providers

\* C15: a request writes nothing that is shared: the registry is not changed while a
\* request is served, the list a provider returned and the items in it are not
\* modified, and a provider that returns the same list object on two requests gets
\* the same aggregated result both times
C15_NothingSharedIsWritten ==
    /\ [][(request.called => _providers' = _providers) /\ cache' = cache]_vars
    /\ [](\A a, b \in 1..Len(returned) :
             ServedTwice(a, b) => returned[a].result = returned[b].result)

-----------------------------------------------------------------------------
\* the promise of the provider settled with a TerminalCompletionList
IsCompletionList(completions) ==
    /\ ~completions.rejected
    /\ ~completions.isUndefined
    /\ ~completions.isArray

\* the items from position `from` on are items of path resolution
PathItemsFrom(items, from) ==
    \A k \in from..Len(items) : /\ items[k].kind \in {"File", "Folder"}
                                /\ items[k].provider # "self"

\* C16: the resource request of a rich provider result is optional: the items of a
\* TerminalCompletionList are contributed to the aggregated output whether or not
\* resourceRequestConfig is set, and when it is set the items of path resolution come
\* directly after the provider's own items
C16_ListItemsWithOrWithoutRequest ==
    [][\A i \in 1..Len(completionPromises) :
          \A completions \in ProviderCompletions(selected[i].obj, request.cursorPosition) :
             \A failing \in RequestFailingSets :
                (/\ completionPromises[i].state = "pending"
                 /\ IsCompletionList(completions)
                 /\ ~PrimaryLookupRejects(completions, failing)
                 /\ ProviderSettles(i, completions, failing))
                => LET own == LabelsOf(completions.items)
                       contributed == completionPromises'[i].items
                   IN  /\ completionPromises'[i].state = "fulfilled"
                       /\ Len(own) > 0 => completionPromises'[i].hasValue
                       /\ Len(contributed) >= Len(own)
                       /\ SubSeq(LabelsOf(contributed), 1, Len(own)) = own
                       /\ PathItemsFrom(contributed, Len(own) + 1)
                       /\ ~completions.hasResourceRequestConfig
                             => Len(contributed) = Len(own)]_vars

-----------------------------------------------------------------------------
\* the place <<bucket, position>> of the registry that holds provider object `obj`
PlaceOf(providers, obj) ==
    CHOOSE place \in (1..Len(providers)) \X (1..MaxRegistrations + 1) :
        /\ place[2] <= Len(providers[place[1]].value)
        /\ providers[place[1]].value[place[2]].value.obj = obj

\* the first place is iterated before the second
IteratedBefore(a, b) == a[1] < b[1] \/ (a[1] = b[1] /\ a[2] < b[2])

\* the keys of a map in iteration order
KeysOf(map) == [i \in 1..Len(map) |-> map[i].key]

\* the ids of the namespace `ext` in iteration order
IdsOf(providers, ext) ==
    IF MapHas(providers, ext) THEN KeysOf(providers[MapIndex(providers, ext)].value)
    ELSE <<>>

\* the number of items the promises before the i-th contributed
RECURSIVE ContributedBefore(_)
ContributedBefore(i) ==
    IF i <= 1 THEN 0
    ELSE ContributedBefore(i - 1) + Len(completionPromises[i - 1].items)

\* the labels of the items a provider wrote itself, in the order they have in `items`
RECURSIVE OwnLabels(_)
OwnLabels(items) ==
    IF Len(items) = 0 THEN <<>>
    ELSE (IF Head(items).kind \in {"Method", "Flag"} THEN <<Head(items).label>> ELSE <<>>)
         \o OwnLabels(Tail(items))

-----------------------------------------------------------------------------
\* the provider declares no shell type, or declares the one of the request
AppliesToShell(provider) ==
    provider.hasShellTypes => request.shellType \in provider.shellTypes

\* how many times the provider object was invoked for the request
TimesInvoked(obj) == Cardinality({k \in 1..Len(invocations) : invocations[k] = obj})

\* C18: every selected provider that applies to the shell type of the request is
\* invoked exactly once, and all of them are invoked before the result of any is
\* awaited, so while one never settles the others have been invoked all the same; a
\* selected provider whose shell types exclude the shell type is never invoked and
\* contributes nothing, without an error
C18_AllInvokedBeforeAnyAwait ==
    request.called =>
       /\ Len(invocations) = Cardinality({i \in 1..Len(selected) : AppliesToShell(selected[i])})
       /\ \A i \in 1..Len(selected) :
             IF AppliesToShell(selected[i])
             THEN TimesInvoked(selected[i].obj) = 1
             ELSE /\ TimesInvoked(selected[i].obj) = 0
                  /\ completionPromises[i].state = "fulfilled"
                  /\ ~completionPromises[i].hasValue
                  /\ completionPromises[i].items = <<>>
       /\ (\A i \in 1..Len(selected) : AppliesToShell(selected[i]) = FALSE)
             => result.state # "rejected"

\* C18 witness: two providers that apply are both invoked while neither has settled
C18_Witness ==
    /\ Len(selected) = 2
    /\ \A i \in 1..2 : /\ AppliesToShell(selected[i])
                       /\ completionPromises[i].state = "pending"
    /\ invocations = <<selected[1].obj, selected[2].obj>>
    /\ result.state = "pending"

\* a provider that applies has been invoked and has not settled, another is selected
\* for another shell type: it was not invoked and its promise holds undefined
C18_MismatchReached ==
    /\ Len(selected) = 2
    /\ \E i, j \in 1..2 :
          /\ ~AppliesToShell(selected[i])
          /\ AppliesToShell(selected[j])
          /\ completionPromises[j].state = "pending"
          /\ invocations = <<selected[j].obj>>
          /\ completionPromises[i] = UndefinedPromise

-----------------------------------------------------------------------------
\* the item with the label `label` as the i-th selected provider returned it
AsReturned(i, label) ==
    LET items == ProviderItems(selected[i].obj, request.cursorPosition)
    IN  items[CHOOSE k \in 1..Len(items) : items[k].label = label]

\* the positions of the items the i-th selected provider wrote itself, in what its
\* callback contributed
OwnPositions(i) ==
    {k \in 1..Len(completionPromises[i].items) :
        completionPromises[i].items[k].kind \in {"Method", "Flag"}}

\* C19: for PowerShell every provider item of kind method with replacementIndex 0 on
\* which the provider set no isFileOverride ends with isFileOverride = true, and a value
\* the provider did set, true or false, is kept; for any other shell type the field is
\* left as the provider returned it
C19_PowerShellFileOverride ==
    \A i \in 1..Len(completionPromises) :
       \A k \in OwnPositions(i) :
          LET item == completionPromises[i].items[k]
              original == AsReturned(i, item.label)
          IN  IF request.shellType = "pwsh"
              THEN /\ (/\ original.kind = "Method"
                       /\ original.replacementIndex = 0
                       /\ original.isFileOverride = Undefined)
                         => item.isFileOverride = "true"
                   /\ original.isFileOverride # Undefined
                         => item.isFileOverride = original.isFileOverride
              ELSE item.isFileOverride = original.isFileOverride

\* C19 witness: under PowerShell the second provider object contributed its method
\* with isFileOverride true, its method set to false unchanged and its flag set to true
\* unchanged
C19_Witness ==
    /\ request.called
    /\ request.shellType = "pwsh"
    /\ \E i \in 1..Len(completionPromises) :
          /\ selected[i].obj = 2
          /\ Len(completionPromises[i].items) >= 3
          /\ [k \in 1..3 |-> completionPromises[i].items[k].isFileOverride]
                = <<"true", "false", "true">>
          /\ AsReturned(i, completionPromises[i].items[1].label).isFileOverride = Undefined

\* under another shell type a provider's items came through with the field as it was
C19_OtherShellReached ==
    /\ request.called
    /\ request.shellType = "bash"
    /\ \E i \in 1..Len(completionPromises) :
          /\ Len(completionPromises[i].items) >= 3
          /\ [k \in 1..3 |-> completionPromises[i].items[k].isFileOverride]
                = <<Undefined, "false", Undefined>>

-----------------------------------------------------------------------------
\* resolveResources listed a directory and returned a list
ReqListed ==
    /\ ReqAnswered
    /\ result.state = "fulfilled"
    /\ result.hasValue
    /\ Len(lookups) >= 1

\* the text with `.` and the separator before it unless it starts with one or two dots
\* and a separator
DotNormalized(text) ==
    IF \E dots \in {".", ".."} : \E sep \in {"/", "\\"} : StartsWith(text, dots \o sep)
    THEN text
    ELSE "." \o ReqConfig.pathSeparator \o text

\* the label of the item for the folder of the current word itself
SelfLabel ==
    IF ReqType = "relative"
    THEN (IF ReqFolder = "" THEN "." ELSE DotNormalized(ReqFolder))
    ELSE ReqFolder

\* the label of the item for the parent directory
ParentLabel ==
    IF ReqFolder = "" THEN ".." \o ReqConfig.pathSeparator
    ELSE DotNormalized(ReqFolder \o ".." \o ReqConfig.pathSeparator)

\* the children of the listed directory that the request asks for, in listing order
ListedChildren ==
    LET listing == DiskDirs[DiskKey([path |-> lookups[1]])]
    IN  KeepFrom(listing, {k \in 1..Len(listing) :
                              \/ ReqConfig.foldersRequested /\ listing[k].isDirectory
                              \/ ReqConfig.filesRequested /\ listing[k].isFile}, 1)

\* the returned items without the self item and the parent item
BetweenSelfAndParent ==
    SubSeq(result.items,
           IF ReqConfig.foldersRequested THEN 2 ELSE 1,
           IF ReqType = "relative" /\ ReqConfig.foldersRequested
           THEN Len(result.items) - 1 ELSE Len(result.items))

\* C20: in the list resolveResources returns after a successful directory listing the
\* self item is first whenever folders are requested, the parent item (`..` and the
\* separator, dot-prefix normalized) is last whenever the classification is relative and
\* folders are requested, the child items are between them in listing order, the CDPATH
\* items come after all child items, and tilde and absolute classifications get no
\* parent item
C20_SelfFirstParentLast ==
    ReqListed =>
       LET items == result.items
           between == BetweenSelfAndParent
           children == OtherItems(between)
       IN  /\ ReqConfig.foldersRequested =>
                /\ Len(items) >= 1
                /\ items[1].label = SelfLabel
                /\ ~FromCdPath(items[1])
           /\ (ReqType = "relative" /\ ReqConfig.foldersRequested) =>
                /\ Len(items) >= 2
                /\ items[Len(items)].label = ParentLabel
                /\ ~FromCdPath(items[Len(items)])
           /\ Len(children) = Len(ListedChildren)
           /\ \A k \in 1..Len(children) :
                 \/ EndsWith(children[k].label, ListedChildren[k].name)
                 \/ /\ ListedChildren[k].isDirectory
                    /\ EndsWith(children[k].label,
                                ListedChildren[k].name \o ReqConfig.pathSeparator)
           /\ \A a, b \in 1..Len(between) :
                 (a < b /\ FromCdPath(between[a])) => FromCdPath(between[b])
           /\ ReqType \in {"tilde", "absolute"} =>
                 \A k \in 1..Len(items) :
                    ~EndsWith(items[k].label, ".." \o ReqConfig.pathSeparator)

\* C20 witness: a relative request for folders with the CDPATH search on returned the
\* self item, a child, an item from CDPATH and the parent item, in that order
C20_Witness ==
    /\ ReqListed
    /\ ReqSearchesCdPath
    /\ Len(result.items) >= 4
    /\ result.items[1].label = SelfLabel
    /\ result.items[Len(result.items)].label = ParentLabel
    /\ ~FromCdPath(result.items[2])
    /\ FromCdPath(result.items[Len(result.items) - 1])

\* an absolute or tilde request for folders returned the self item and children, and
\* no parent item
C20_NoParentReached ==
    /\ ReqListed
    /\ ReqType \in {"tilde", "absolute"}
    /\ ReqConfig.foldersRequested
    /\ Len(result.items) >= 2
    /\ result.items[1].label = ReqFolder

-----------------------------------------------------------------------------
\* every item has a kind that was requested
KindsRequested(items) ==
    \A k \in 1..Len(items) :
       /\ items[k].kind \in {"Folder", "File"}
       /\ items[k].kind = "Folder" => ReqConfig.foldersRequested
       /\ items[k].kind = "File" => ReqConfig.filesRequested

\* the child items are those of the wanted children of the listed directory: a folder
\* item whose label ends with the separator for a directory, a file item for a file
ChildrenByKind ==
    LET children == OtherItems(BetweenSelfAndParent)
    IN  /\ Len(children) = Len(ListedChildren)
        /\ \A k \in 1..Len(children) :
              IF ListedChildren[k].isDirectory
              THEN /\ children[k].kind = "Folder"
                   /\ EndsWith(children[k].label,
                               ListedChildren[k].name \o ReqConfig.pathSeparator)
              ELSE /\ children[k].kind = "File"
                   /\ EndsWith(children[k].label, ListedChildren[k].name)

\* resolveResources returned a list without looking anything up
ReqPlaceholder ==
    /\ ReqAnswered
    /\ result.state = "fulfilled"
    /\ result.hasValue
    /\ lookups = <<>>

\* C21 as stated: path resolution respects the requested kinds for every classification
\* and every outcome: an item of kind folder only if folders were requested, an item of
\* kind file only if files were requested; a child that is a directory yields a folder
\* item whose label ends with the separator, a child that is a file a file item
C21_KindsRequestedEveryOutcome ==
    /\ (ReqAnswered /\ result.state = "fulfilled") => KindsRequested(result.items)
    /\ ReqListed => ChildrenByKind

\* C21 amended: after a directory listing, for every classification, an item of kind
\* folder is emitted only if folders were requested and an item of kind file only if
\* files were requested, a child that is a directory yields a folder item whose label
\* ends with the separator and a child that is a file a file item; the placeholder
\* returned without a listing, when the home directory of a tilde word is not known, is
\* one item of kind folder whatever was requested
C21_KindsRequestedWhenListed ==
    /\ ReqListed => (KindsRequested(result.items) /\ ChildrenByKind)
    /\ ReqPlaceholder =>
          /\ ReqType = "tilde"
          /\ ReqHome = ""
          /\ Len(result.items) = 1
          /\ result.items[1].kind = "Folder"
          /\ result.items[1].label = ReqFolder
          /\ result.items[1].detail \in {"$HOME", "Home directory"}

\* C21 witness: only files were requested and the listing of a directory that holds a
\* directory, a file and a socket returned the file alone
C21_Witness ==
    /\ ReqListed
    /\ ~ReqConfig.foldersRequested
    /\ ReqConfig.filesRequested
    /\ lookups[1] = "/home/u"
    /\ Len(result.items) = 1
    /\ result.items[1].kind = "File"
    /\ EndsWith(result.items[1].label, "f.txt")

\* only files were requested and the placeholder folder item was returned
C21_PlaceholderReached ==
    /\ ReqPlaceholder
    /\ ~ReqConfig.foldersRequested
    /\ result.items[1].kind = "Folder"

-----------------------------------------------------------------------------
\* the provider objects that `providers` enumerates; the object of registration h is h
ObjectsOf(providers) ==
    {ProvidersOf(providers)[k].obj : k \in 1..Len(ProvidersOf(providers))}

\* C22: a release handle removes only the provider its own registration stored: when
\* (namespace, id) is registered with one provider and then again with another, the
\* handle of the first registration leaves the second provider registered and
\* enumerated; a handle invoked a second time changes nothing
C22_HandleRemovesOwnProviderOnly ==
    [][\A h \in 1..Len(disposables) :
          Dispose(h) =>
             /\ ObjectsOf(_providers) \ {h} \subseteq ObjectsOf(_providers')
             /\ disposables[h].isDisposed => _providers' = _providers]_vars

\* the second registration of (namespace, id) replaced the provider of the first, whose
\* handle was then invoked: nothing is registered although the second handle was not
C22_ReplacedProviderRemoved ==
    /\ Len(disposables) = 2
    /\ disposables[1].ext = disposables[2].ext
    /\ disposables[1].id = disposables[2].id
    /\ disposables[1].isDisposed
    /\ ~disposables[2].isDisposed
    /\ _providers = <<>>

-----------------------------------------------------------------------------
(* ExtensionMcpDiscovery (extensionMcpDiscovery.ts): the collections of MCP    *)
(* servers that extensions contribute are registered with the MCP registry,    *)
(* with the server definitions cached in the workspace storage, if any.        *)

\* the variables of the terminal completion service
terminalVars == <<isWindows, _providers, disposables, providerConfig, cdPathConfig, request, selected, completionPromises, result, invocations, lookups, resourceRequest, cache, returned>>

\* no terminal completion service is at work
NoTerminal ==
    /\ isWindows = FALSE
    /\ _providers = <<>>
    /\ disposables = <<>>
    /\ providerConfig = <<>>
    /\ cdPathConfig = "off"
    /\ request = NoRequest
    /\ selected = <<>>
    /\ completionPromises = <<>>
    /\ result = NoPromise
    /\ invocations = <<>>
    /\ lookups = <<>>
    /\ resourceRequest = NoResourceRequest
    /\ cache = <<>>
    /\ returned = <<>>

\* extensionPrefixedIdentifier(identifier, id) of mcpTypes.ts
ExtensionPrefixedIdentifier(identifier, id) == identifier \o "/" \o id

\* a server definition as the registry holds it, and as the storage holds it
ServerDefinition(label) == [label |-> label, serialized |-> FALSE]

\* McpServerDefinition.toSerialized
ToSerialized(def) == [def EXCEPT !.serialized = TRUE]

\* McpServerDefinition.fromSerialized
FromSerialized(def) == [def EXCEPT !.serialized = FALSE]

\* the extensions that contribute to the extension point, each with the collections of
\* its contribution (collections.value)
McpContributions ==
    ("x1" :> <<[id |-> "c1", label |-> "One"]>>) @@
    ("x2" :> <<[id |-> "c1", label |-> "Uno"], [id |-> "c2", label |-> "Two"]>>)

\* what the workspace storage may hold under cacheKey when the discovery is constructed
StoredCaches ==
    {EmptyObject,
     "c1" :> [servers |-> <<ToSerialized(ServerDefinition("s1"))>>],
     ("c1" :> [servers |-> <<ToSerialized(ServerDefinition("s1"))>>]) @@
     ("x2/c2" :> [servers |-> <<>>])}

\* the server definitions a collection may have once its extension is activated
LiveServerDefinitions ==
    {<<>>, <<ServerDefinition("s1")>>, <<ServerDefinition("s1"), ServerDefinition("s2")>>}

\* the constructor, lines 29-51: cachedServers is the object read from the storage
InitDiscovery ==
    /\ NoTerminal
    /\ _extensionCollectionIdsToPersist = {}
    /\ cachedServers \in StoredCaches
    /\ storageService = [value |-> cachedServers, stores |-> {}, savedState |-> FALSE]
    /\ extensionCollections = {}
    /\ mcpRegistry = EmptyObject
    /\ extensionPoint \in {[hasHandler |-> FALSE, extensions |-> xs] : xs \in {{}, {"x1"}}}
    /\ activated = {}

\* the collections of the extensions `extensions`, as <<extension, collection>>
ContributedBy(extensions) ==
    UNION {{<<x, McpContributions[x][k]>> : k \in 1..Len(McpContributions[x])} : x \in extensions}

\* the ids under which the collections of `extensions` are registered (lines 60, 68)
IdsOfExtensions(extensions) ==
    {ExtensionPrefixedIdentifier(c[1], c[2].id) : c \in ContributedBy(extensions)}

\* the argument of registerCollection, lines 66-81, for collection `coll` of `extension`
McpCollection(extension, coll, cached) ==
    LET hasServerDefs == coll.id \in DOMAIN cached
        serverDefs == IF hasServerDefs THEN cached[coll.id].servers ELSE <<>>
    IN  [id |-> ExtensionPrefixedIdentifier(extension, coll.id),
         label |-> coll.label,
         serverDefinitions |-> [k \in 1..Len(serverDefs) |-> FromSerialized(serverDefs[k])],
         lazy |-> [isCached |-> hasServerDefs, load |-> coll.id]]

\* an object without the properties `keys`
Without(object, keys) == [key \in DOMAIN object \ keys |-> object[key]]

\* the registry after the handler of the extension point ran on a delta, lines 56-85:
\* the registrations of the removed collections are disposed of, then the added
\* collections are registered
RegistryAfterDelta(registry, registered, added, removed, cached) ==
    LET kept == Without(registry, IdsOfExtensions(removed) \cap registered)
        new == ContributedBy(added)
    IN  [id \in DOMAIN kept \cup IdsOfExtensions(added) |->
            IF id \in IdsOfExtensions(added)
            THEN LET c == CHOOSE c \in new : ExtensionPrefixedIdentifier(c[1], c[2].id) = id
                 IN  McpCollection(c[1], c[2], cached)
            ELSE kept[id]]

\* the keys of extensionCollections after the same
RegisteredAfterDelta(registered, added, removed) ==
    (registered \ IdsOfExtensions(removed)) \cup IdsOfExtensions(added)

\* the handler of the extension point runs on a delta
Handler(added, removed) ==
    /\ mcpRegistry' = RegistryAfterDelta(mcpRegistry, extensionCollections, added, removed,
                                         cachedServers)
    /\ extensionCollections' = RegisteredAfterDelta(extensionCollections, added, removed)

\* start(), lines 53-87: the handler is set, and is called with the extensions that
\* contribute already
Start ==
    /\ ~extensionPoint.hasHandler
    /\ extensionPoint' = [extensionPoint EXCEPT !.hasHandler = TRUE]
    /\ Handler(extensionPoint.extensions, {})
    /\ UNCHANGED <<terminalVars, _extensionCollectionIdsToPersist, cachedServers,
                   storageService, activated>>

\* extensions are installed or removed; the extension point tells its handler
ExtensionPointDelta(added, removed) ==
    /\ added \cup removed # {}
    /\ added \cap extensionPoint.extensions = {}
    /\ removed \subseteq extensionPoint.extensions
    /\ extensionPoint' = [extensionPoint EXCEPT
                             !.extensions = (extensionPoint.extensions \ removed) \cup added]
    /\ IF extensionPoint.hasHandler
       THEN Handler(added, removed)
       ELSE UNCHANGED <<mcpRegistry, extensionCollections>>
    /\ UNCHANGED <<terminalVars, _extensionCollectionIdsToPersist, cachedServers,
                   storageService, activated>>

\* lazy.load of a registered collection, lines 78 and 89-93: the extension is activated
\* and provides `definitions`
LazyLoad(id, definitions) ==
    /\ id \in DOMAIN mcpRegistry
    /\ activated' = activated \cup {mcpRegistry[id].lazy.load}
    /\ mcpRegistry' = [mcpRegistry EXCEPT ![id].serverDefinitions = definitions]
    /\ UNCHANGED <<terminalVars, _extensionCollectionIdsToPersist, cachedServers,
                   storageService, extensionCollections, extensionPoint>>

\* lazy.removed of a registered collection, line 79
LazyRemoved(id) ==
    /\ id \in DOMAIN mcpRegistry
    /\ mcpRegistry' = Without(mcpRegistry, {id} \cap extensionCollections)
    /\ extensionCollections' = extensionCollections \ {id}
    /\ UNCHANGED <<terminalVars, _extensionCollectionIdsToPersist, cachedServers,
                   storageService, extensionPoint, activated>>

\* lines 39-40: the collection ids to persist whose collection the registry holds
FoundToPersist(ids, registry) == ids \cap DOMAIN registry

\* mutant: the storage is written on every save
Updated_Always(ids, registry) == TRUE

\* lines 38-47: whether the handler found definitions to write
Updated(ids, registry) == FoundToPersist(ids, registry) # {}

\* line 43: cachedServers after the loop of the handler
CachedServersAfterSave(cached, ids, registry) ==
    [collectionId \in DOMAIN cached \cup FoundToPersist(ids, registry) |->
        IF collectionId \in FoundToPersist(ids, registry)
        THEN [servers |-> [k \in 1..Len(registry[collectionId].serverDefinitions) |->
                              ToSerialized(registry[collectionId].serverDefinitions[k])]]
        ELSE cached[collectionId]]

\* the listener of storageService.onWillSaveState, lines 37-50
WillSaveState ==
    /\ cachedServers' = CachedServersAfterSave(cachedServers,
                                               _extensionCollectionIdsToPersist, mcpRegistry)
    /\ storageService' =
          IF Updated(_extensionCollectionIdsToPersist, mcpRegistry)
          THEN [value |-> cachedServers',
                stores |-> storageService.stores \cup {cachedServers'},
                savedState |-> TRUE]
          ELSE [storageService EXCEPT !.savedState = TRUE]
    /\ UNCHANGED <<terminalVars, _extensionCollectionIdsToPersist, extensionCollections,
                   mcpRegistry, extensionPoint, activated>>

NextDiscovery ==
    \/ Start
    \/ \E added, removed \in SUBSET DOMAIN McpContributions : ExtensionPointDelta(added, removed)
    \/ \E id \in DOMAIN mcpRegistry, definitions \in LiveServerDefinitions :
          LazyLoad(id, definitions)
    \/ \E id \in DOMAIN mcpRegistry : LazyRemoved(id)
    \/ WillSaveState

SpecDiscovery == InitDiscovery /\ [][NextDiscovery]_vars

\* C23: the listener of will-save-state writes only for the collection ids held in
\* _extensionCollectionIdsToPersist, and no operation adds an id to that set; so after
\* any sequence of extension point deltas, lazy loads and save events
\* storageService.store has not been called and cachedServers is still the object that
\* was loaded at construction
C23_NothingPersisted ==
    /\ [](/\ _extensionCollectionIdsToPersist = {}
          /\ storageService.stores = {}
          /\ cachedServers = storageService.value)
    /\ [][WillSaveState =>
             /\ \A id \in DOMAIN cachedServers' :
                   (id \notin DOMAIN cachedServers \/ cachedServers'[id] # cachedServers[id])
                      => id \in _extensionCollectionIdsToPersist
             /\ storageService'.stores # storageService.stores
                   => _extensionCollectionIdsToPersist \cap DOMAIN mcpRegistry # {}]_vars

\* C23 witness: the storage held cached servers at construction; since then the handler
\* registered collections, one was loaded lazily and has two live definitions where the
\* cache had one, one was removed by the registry, and a save event was handled
C23_Witness ==
    /\ storageService.savedState
    /\ extensionPoint.hasHandler
    /\ cachedServers # EmptyObject
    /\ activated # {}
    /\ IdsOfExtensions(extensionPoint.extensions) # extensionCollections
    /\ \E id \in DOMAIN mcpRegistry :
          /\ mcpRegistry[id].lazy.isCached
          /\ Len(mcpRegistry[id].serverDefinitions) = 2


====
